---- MODULE Spec2Model ----
(***************************************************************************)
(* A model of the snake-tron arena (src/snaketron/back): the occupancy     *)
(* grid, the agents (manual, food seeking, offensive) and the multi-phase  *)
(* resolution of SnakeWorld.simulate().                                    *)
(*                                                                         *)
(* Bodies are sequences from the tail (index 1) to the head (last index),  *)
(* as the deque `pos` of the agents.  One call of simulate() is a chain of *)
(* steps driven by pc: one step per decide_direction() call, then one step *)
(* per phase of the tick.                                                  *)
(***************************************************************************)
EXTENDS Integers, Sequences, FiniteSets, TLC

(* ---- bounds of the model ---- *)
Width == 3
Height == 3
MaxTicks == 3
MaxPending == 1

(* ---- program constants ---- *)
MaxRequests == 5
CounterWidth == 256

Cells == (0 .. Width - 1) \X (0 .. Height - 1)

UP == <<0, -1>>
DOWN == <<0, 1>>
LEFT == <<-1, 0>>
RIGHT == <<1, 0>>
Directions == {UP, DOWN, LEFT, RIGHT}

opposite_dir(d) == <<0 - d[1], 0 - d[2]>>

(* None, for an optional position / an optional agent / an infinite cooldown *)
NoPos == <<-1, -1>>
NoAgent == 0
Infinity == -1

Last(s) == s[Len(s)]

Reverse(s) == [i \in 1 .. Len(s) |-> s[Len(s) + 1 - i]]

RECURSIVE SeqSum(_)
SeqSum(s) == IF Len(s) = 0 THEN 0 ELSE Head(s) + SeqSum(Tail(s))

Range(s) == {s[i] : i \in 1 .. Len(s)}

(* the sequences that list every element of the finite set S exactly once *)
Orderings(S) ==
    {s \in [1 .. Cardinality(S) -> S] : \A x \in S : \E i \in 1 .. Cardinality(S) : s[i] = x}

(* the rearrangements of the sequence s *)
Rearrangements(s) ==
    {[i \in 1 .. Len(s) |-> s[p[i]]] : p \in Orderings(1 .. Len(s))}

(* ---- SnakeWorld: grid primitives ---- *)
get_obstacle_count(grid, p) == grid[p]

incr_obstacle_count(grid, p, delta) ==
    [grid EXCEPT ![p] = (@ + delta) % CounterWidth]

get_neighbor(p, d) == <<(p[1] + d[1]) % Width, (p[2] + d[2]) % Height>>

(* the free neighbours in the order of the generator: up, down, left, right.
   The generator is lazy: a neighbour is tested when the loop asks for it. *)
NeighborOrder == <<UP, DOWN, LEFT, RIGHT>>

toward_center(x, y) ==
    LET above_diag_0 == y * Width > Height * x
        above_diag_1 == y * Width > Height * (Width - x)
    IN  IF above_diag_0 /\ above_diag_1 THEN UP
        ELSE IF above_diag_0 THEN RIGHT
        ELSE IF above_diag_1 THEN LEFT
        ELSE DOWN

(* ---- AbstractSnakeAgent ---- *)
get_head(a) == Last(a.pos)

(* index of the first occurrence of x in s, 1-based (deque.index is 0-based) *)
IndexOf(s, x) == CHOOSE i \in 1 .. Len(s) : s[i] = x /\ \A j \in 1 .. i - 1 : s[j] # x

move(a, grid, d) ==
    LET new_head == get_neighbor(Last(a.pos), d)
        g1 == incr_obstacle_count(grid, new_head, 1)
        p1 == Append(a.pos, new_head)
        tail == Head(p1)
    IN  [agent |-> [a EXCEPT !.pos = Tail(p1), !.last_tail_pos = tail],
         grid |-> incr_obstacle_count(g1, tail, -1)]

(* check_self_collision that forgets the + 1: the cell under the head stays *)
check_self_collision_NoPlusOne(a, grid) ==
    LET head == Last(a.pos)
    IN  IF get_obstacle_count(grid, head) > 1
        THEN (IndexOf(a.pos, head) - 1) % Len(a.pos)
        ELSE 0

check_self_collision(a, grid) ==
    LET head == Last(a.pos)
    IN  IF get_obstacle_count(grid, head) > 1
        THEN ((IndexOf(a.pos, head) - 1) + 1) % Len(a.pos)
        ELSE 0

RECURSIVE cut(_, _, _)
cut(a, grid, cut_length) ==
    IF cut_length = 0 THEN [agent |-> a, grid |-> grid]
    ELSE cut([a EXCEPT !.pos = Tail(@)],
             incr_obstacle_count(grid, Head(a.pos), -1),
             cut_length - 1)

(* grow that doubles the present tail cell instead of the cell the move left *)
grow_DoublesTail(a, grid) ==
    IF a.last_tail_pos # NoPos
    THEN [agent |-> [a EXCEPT !.pos = <<Head(a.pos)>> \o @, !.last_tail_pos = NoPos],
          grid |-> incr_obstacle_count(grid, Head(a.pos), 1)]
    ELSE [agent |-> a, grid |-> grid]

(* grow that adds the cell to the body without counting it on the grid *)
grow_Uncounted(a, grid) ==
    IF a.last_tail_pos # NoPos
    THEN [agent |-> [a EXCEPT !.pos = <<a.last_tail_pos>> \o @, !.last_tail_pos = NoPos],
          grid |-> grid]
    ELSE [agent |-> a, grid |-> grid]

grow(a, grid) ==
    IF a.last_tail_pos # NoPos
    THEN [agent |-> [a EXCEPT !.pos = <<a.last_tail_pos>> \o @, !.last_tail_pos = NoPos],
          grid |-> incr_obstacle_count(grid, a.last_tail_pos, 1)]
    ELSE [agent |-> a, grid |-> grid]

(* collides_another that looks at the heads of the other snakes only *)
collides_another_HeadsOnly(id, ags, alive, grid) ==
    LET head == Last(ags[id].pos)
    IN  /\ get_obstacle_count(grid, head) > 1
        /\ \E i \in 1 .. Len(alive) :
              alive[i] # id /\ head = Last(ags[alive[i]].pos)

(* TRUE when collides_another returns an agent (the caller tests its truth) *)
collides_another(id, ags, alive, grid) ==
    LET head == Last(ags[id].pos)
    IN  /\ get_obstacle_count(grid, head) > 1
        /\ \E i \in 1 .. Len(alive) :
              alive[i] # id /\ head \in Range(ags[alive[i]].pos)

RECURSIVE DecrAll(_, _)
DecrAll(grid, cells) ==
    IF Len(cells) = 0 THEN grid
    ELSE DecrAll(incr_obstacle_count(grid, Head(cells), -1), Tail(cells))

(* die that leaves the cells of the dead snake counted on the grid *)
die_KeepsCells(a, grid) ==
    [agent |-> [a EXCEPT !.alive = FALSE,
                         !.path = IF a.kind = "player" THEN @ ELSE <<>>],
     grid |-> grid]

(* die that leaves the alive flag set *)
die_StaysAlive(a, grid) ==
    [agent |-> [a EXCEPT !.path = IF a.kind = "player" THEN @ ELSE <<>>],
     grid |-> DecrAll(grid, a.pos)]

(* AbstractSnakeAgent.die, and the override of AbstractAISnakeAgent *)
die(a, grid) ==
    [agent |-> [a EXCEPT !.alive = FALSE,
                         !.path = IF a.kind = "player" THEN @ ELSE <<>>],
     grid |-> DecrAll(grid, a.pos)]

(* reset that leaves the cached path of an AI agent in place *)
agent_reset_KeepsPath(a, pos, d) ==
    [a EXCEPT !.alive = TRUE,
              !.pos = Reverse(IF pos = <<>> THEN a.initial_pos ELSE pos),
              !.dir = IF d = NoPos THEN a.initial_dir ELSE d,
              !.dir_requests = <<>>,
              !.cooldown = 0,
              !.target = NoAgent]

(* reset of the three agent classes; pos = <<>> and d = NoPos stand for None *)
agent_reset(a, pos, d) ==
    [a EXCEPT !.alive = TRUE,
              !.pos = Reverse(IF pos = <<>> THEN a.initial_pos ELSE pos),
              !.dir = IF d = NoPos THEN a.initial_dir ELSE d,
              !.dir_requests = <<>>,
              !.path = <<>>,
              !.cooldown = 0,
              !.target = NoAgent]

(* ---- SnakeWorld: the phases of simulate() ---- *)

(* for agent, d in zip(alive_agents, directions): agent.move(d) *)
RECURSIVE MoveLoop(_, _, _, _, _)
MoveLoop(alive, dirs, i, ags, grid) ==
    IF i > Len(alive) THEN [agents |-> ags, grid |-> grid]
    ELSE LET r == move(ags[alive[i]], grid, dirs[i])
         IN  MoveLoop(alive, dirs, i + 1, [ags EXCEPT ![alive[i]] = r.agent], r.grid)

CutLengths(alive, ags, grid) ==
    [i \in 1 .. Len(alive) |-> check_self_collision(ags[alive[i]], grid)]

RECURSIVE CutLoop(_, _, _, _, _)
CutLoop(alive, cuts, i, ags, grid) ==
    IF i > Len(alive) THEN [agents |-> ags, grid |-> grid]
    ELSE LET r == cut(ags[alive[i]], grid, cuts[i])
         IN  CutLoop(alive, cuts, i + 1, [ags EXCEPT ![alive[i]] = r.agent], r.grid)

head_count(p, alive, ags) ==
    Cardinality({i \in 1 .. Len(alive) : get_head(ags[alive[i]]) = p})

(* _consume_food that serves the first head when several are on the food *)
consume_food_AnyHead(p, food, alive, ags) ==
    p \in food /\ head_count(p, alive, ags) >= 1

(* TRUE when _consume_food(p) despawns the food at p *)
consume_food(p, food, alive, ags) ==
    p \in food /\ head_count(p, alive, ags) = 1

RECURSIVE ConsumeLoop(_, _, _, _, _)
ConsumeLoop(alive, i, ags, food, growing) ==
    IF i > Len(alive) THEN [food |-> food, growing |-> growing]
    ELSE LET p == get_head(ags[alive[i]])
         IN  IF consume_food(p, food, alive, ags)
             THEN ConsumeLoop(alive, i + 1, ags, food \ {p}, Append(growing, alive[i]))
             ELSE ConsumeLoop(alive, i + 1, ags, food, growing)

RECURSIVE GrowLoop(_, _, _, _)
GrowLoop(growing, i, ags, grid) ==
    IF i > Len(growing) THEN [agents |-> ags, grid |-> grid]
    ELSE LET r == grow(ags[growing[i]], grid)
         IN  GrowLoop(growing, i + 1, [ags EXCEPT ![growing[i]] = r.agent], r.grid)

(* for agent in alive_agents: if agent.collides_another(): agent.die(); deads.append(agent) *)
RECURSIVE CollisionLoop(_, _, _, _, _)
CollisionLoop(alive, i, ags, grid, dead) ==
    IF i > Len(alive) THEN [agents |-> ags, grid |-> grid, deads |-> dead]
    ELSE IF collides_another(alive[i], ags, alive, grid)
         THEN LET r == die(ags[alive[i]], grid)
              IN  CollisionLoop(alive, i + 1, [ags EXCEPT ![alive[i]] = r.agent],
                                r.grid, Append(dead, alive[i]))
         ELSE CollisionLoop(alive, i + 1, ags, grid, dead)

RemoveAll(s, gone) == SelectSeq(s, LAMBDA x : x \notin gone)

(* the cells _find_available_food_pos may return *)
AvailableFood(grid, food) == {c \in Cells : grid[c] = 0 /\ c \notin food}

(* the food sets _spawn_missing_food can leave after n more rounds: each
   round adds one available cell, or stops the loop when every random try
   fell on an unavailable cell *)
RECURSIVE SpawnOutcomes(_, _, _)
SpawnOutcomes(grid, food, n) ==
    IF n <= 0 THEN {food}
    ELSE (IF AvailableFood(grid, food) # Cells THEN {food} ELSE {})
         \cup UNION {SpawnOutcomes(grid, food \cup {c}, n - 1) : c \in AvailableFood(grid, food)}

spawn_missing_food(grid, food, n_food) ==
    SpawnOutcomes(grid, food, n_food - Cardinality(food))

(* the cells _find_agent_spawn_pos may return: the cell of a Voronoi vertex
   inside the arena, provided it is free; NoPos when there is none *)
SpawnCandidates(grid) == {c \in Cells : grid[c] = 0} \cup {NoPos}

RECURSIVE PlaceLoop(_, _, _, _)
PlaceLoop(alive, i, ags, grid) ==
    IF i > Len(alive) THEN [agents |-> ags, grid |-> grid]
    ELSE LET a == agent_reset(ags[alive[i]], <<>>, NoPos)
         IN  PlaceLoop(alive, i + 1, [ags EXCEPT ![alive[i]] = a],
                       [c \in Cells |->
                           (grid[c] + Cardinality({k \in 1 .. Len(a.pos) : a.pos[k] = c}))
                               % CounterWidth])

(* ---- heuristics (world.py) ---- *)
Abs(n) == IF n < 0 THEN 0 - n ELSE n
Min(a, b) == IF a < b THEN a ELSE b
Max(a, b) == IF a > b THEN a ELSE b

EuclidianDistanceHeuristic(dst, p) ==
    (dst[1] - p[1]) * (dst[1] - p[1]) + (dst[2] - p[2]) * (dst[2] - p[2])

ManhattanDistanceHeuristic(dst, p) == Abs(dst[1] - p[1]) + Abs(dst[2] - p[2])

EuclidianDistancePeriodicHeuristic(dst, p) ==
    LET dx == Min(Abs(dst[1] - p[1]), Width - Abs(dst[1] - p[1]))
        dy == Min(Abs(dst[2] - p[2]), Height - Abs(dst[2] - p[2]))
    IN  dx * dx + dy * dy

Heuristic(htype, dst, p) ==
    IF htype = "manhattan" THEN ManhattanDistanceHeuristic(dst, p)
    ELSE IF htype = "periodic" THEN EuclidianDistancePeriodicHeuristic(dst, p)
    ELSE EuclidianDistanceHeuristic(dst, p)

(* ---- the pathfinder (back/a_star.py) ---- *)
Unreached == 1000000
MaxIteration == 450

(* the order in which a set of cells is iterated *)
CellRank(c) == c[1] * Height + c[2]

RECURSIVE SetToSeq(_)
SetToSeq(S) ==
    IF S = {} THEN <<>>
    ELSE LET c == CHOOSE x \in S : \A y \in S : CellRank(x) <= CellRank(y)
         IN  <<c>> \o SetToSeq(S \ {c})

(* the frontier position with the least dist + heuristic; among equals the
   least heuristic; among those the first one iterated *)
minimizing_cost_position(open, dist, htype, dst) ==
    LET c(p) == dist[p] + Heuristic(htype, dst, p)
        best == {p \in open : \A q \in open :
                    \/ c(p) < c(q)
                    \/ c(p) = c(q) /\ Heuristic(htype, dst, p) <= Heuristic(htype, dst, q)}
    IN  CHOOSE p \in best : \A q \in best : CellRank(p) <= CellRank(q)

(* relax the free neighbours of cur, in the order up, down, left, right *)
RECURSIVE Relax(_, _, _, _)
Relax(st, grid, cur, k) ==
    IF k > Len(NeighborOrder) THEN st
    ELSE LET d == NeighborOrder[k]
             n == get_neighbor(cur, d)
         IN  IF grid[n] = 0 /\ st.dist[cur] + 1 < st.dist[n]
             THEN Relax([st EXCEPT !.dist[n] = st.dist[cur] + 1,
                                   !.parent[n] = d,
                                   !.open = @ \cup {n}], grid, cur, k + 1)
             ELSE Relax(st, grid, cur, k + 1)

(* the expanded position leaves the frontier and the next one is selected *)
Close(r, open, htype, dst) ==
    [r EXCEPT !.open = open,
              !.closed = @ \cup {r.cur},
              !.cur = minimizing_cost_position(open, r.dist, htype, dst),
              !.n = @ + 1]

RECURSIVE Search(_, _, _, _)
(* r: the search state once the neighbours of the current position are relaxed *)
Expand(r, grid, dst, htype) ==
    IF r.open \ {r.cur} = {} THEN r
    ELSE Search(Close(r, r.open \ {r.cur}, htype, dst), grid, dst, htype)

Search(st, grid, dst, htype) ==
    IF st.cur = dst \/ st.n >= MaxIteration THEN st
    ELSE Expand(Relax(st, grid, st.cur, 1), grid, dst, htype)

(* the steps from the final expanded node back to the source, source excluded *)
RECURSIVE get_path(_, _, _)
get_path(src, p, parent) ==
    IF p = src THEN <<>>
    ELSE <<[p |-> p, d |-> parent[p]]>>
         \o get_path(src, get_neighbor(p, opposite_dir(parent[p])), parent)

(* the path to the last position the search expanded *)
PathOf(src, st) == get_path(src, st.cur, st.parent)

shortest_path(grid, src, dst, htype) ==
    PathOf(src, Search([cur |-> src,
                        dist |-> [c \in Cells |-> IF c = src THEN 0 ELSE Unreached],
                        parent |-> [c \in Cells |-> NoPos],
                        open |-> {src}, closed |-> {}, n |-> 0], grid, dst, htype))

(* ---- AbstractAISnakeAgent ---- *)

(* the loop body that trusts the result of the search without comparing
   its first cell with the destination *)
KeepShortest_Unverified(acc, grid, i, dst, path, inf_len, sup_len) ==
    IF /\ get_obstacle_count(grid, dst) = 0
       /\ inf_len < Len(path)
       /\ Len(path) < Min(acc.current_min, sup_len)
    THEN [idx |-> i, current_min |-> Len(path), agent |-> [acc.agent EXCEPT !.path = path]]
    ELSE acc

(* the loop body that keeps the path to the last destination reached,
   whatever its length *)
KeepShortest_KeepsLast(acc, grid, i, dst, path, inf_len, sup_len) ==
    IF /\ get_obstacle_count(grid, dst) = 0
       /\ inf_len < Len(path)
       /\ Len(path) < sup_len
       /\ path[1].p = dst
    THEN [idx |-> i, current_min |-> Len(path), agent |-> [acc.agent EXCEPT !.path = path]]
    ELSE acc

(* compute_shortest_path: acc.idx is the 1-based index of the selected
   destination, 0 for None; acc.agent carries the cached path *)
(* one round of the loop: path is the path found to the i-th destination dst *)
KeepShortest(acc, grid, i, dst, path, inf_len, sup_len) ==
    IF /\ get_obstacle_count(grid, dst) = 0
       /\ inf_len < Len(path)
       /\ Len(path) < Min(acc.current_min, sup_len)
       /\ path[1].p = dst
    THEN [idx |-> i, current_min |-> Len(path), agent |-> [acc.agent EXCEPT !.path = path]]
    ELSE acc

RECURSIVE ShortestLoop(_, _, _, _, _, _)
ShortestLoop(acc, grid, destinations, i, inf_len, sup_len) ==
    IF i > Len(destinations) THEN acc
    ELSE ShortestLoop(
             KeepShortest(acc, grid, i, destinations[i],
                          shortest_path(grid, get_head(acc.agent), destinations[i],
                                        acc.agent.heuristic_type),
                          inf_len, sup_len),
             grid, destinations, i + 1, inf_len, sup_len)

compute_shortest_path(a, grid, destinations, inf_len, sup_len) ==
    ShortestLoop([idx |-> 0, current_min |-> Unreached, agent |-> a],
                 grid, destinations, 1, Max(inf_len, 0), sup_len)

(* ---- AStarSnakeAgent ---- *)

(* one position of a layer: mark its free neighbours *)
RECURSIVE AvoidNeighbors(_, _, _, _)
AvoidNeighbors(grid, new_layer, position, k) ==
    IF k > Len(NeighborOrder) THEN [grid |-> grid, layer |-> new_layer]
    ELSE LET n == get_neighbor(position, NeighborOrder[k])
         IN  IF grid[n] = 0
             THEN AvoidNeighbors(incr_obstacle_count(grid, n, 1), Append(new_layer, n),
                                 position, k + 1)
             ELSE AvoidNeighbors(grid, new_layer, position, k + 1)

RECURSIVE AvoidLayer(_, _, _, _)
AvoidLayer(grid, new_layer, layer, j) ==
    IF j > Len(layer) THEN [grid |-> grid, layer |-> new_layer]
    ELSE LET r == AvoidNeighbors(grid, new_layer, layer[j], 1)
         IN  AvoidLayer(r.grid, r.layer, layer, j + 1)

RECURSIVE AvoidAgent(_, _, _, _)
AvoidAgent(grid, layers, layer, radius) ==
    IF radius = 0 THEN [grid |-> grid, layers |-> layers]
    ELSE LET r == AvoidLayer(grid, <<>>, layer, 1)
         IN  AvoidAgent(r.grid, Append(layers, r.layer), r.layer, radius - 1)

(* start_avoid that marks no cell *)
start_avoid_MarksNothing(grid, layers, heads, radius) ==
    [grid |-> grid, layers |-> layers]

(* heads: the heads of the dangerous agents, in the order they are iterated *)
RECURSIVE start_avoid(_, _, _, _)
start_avoid(grid, layers, heads, radius) ==
    IF Len(heads) = 0 THEN [grid |-> grid, layers |-> layers]
    ELSE LET r == AvoidAgent(grid, layers, <<Head(heads)>>, radius)
         IN  start_avoid(r.grid, r.layers, Tail(heads), radius)

(* stop_avoid that removes the first layer only *)
stop_avoid_FirstLayerOnly(grid, danger_layers) ==
    IF Len(danger_layers) = 0 THEN grid
    ELSE DecrAll(grid, Head(danger_layers))

RECURSIVE stop_avoid(_, _)
stop_avoid(grid, danger_layers) ==
    IF Len(danger_layers) = 0 THEN grid
    ELSE stop_avoid(DecrAll(grid, Head(danger_layers)), Tail(danger_layers))

compute_path_to_nearest_food(a, grid, food) ==
    compute_shortest_path(a, grid, SetToSeq(food), 0, Unreached)

OtherHeads(id, ags, alive) ==
    LET others == SelectSeq(alive, LAMBDA o : o # id)
    IN  [i \in 1 .. Len(others) |-> get_head(ags[others[i]])]

(* the end of update_path without the second search *)
Retry_GivesUp(first, restored, food) == [agent |-> first.agent, grid |-> restored]

(* the end of update_path: first is the outcome of the search behind the
   danger layers, restored the grid once stop_avoid has removed them *)
Retry(first, restored, food) ==
    IF first.idx # 0
    THEN [agent |-> first.agent, grid |-> restored]
    ELSE [agent |-> compute_path_to_nearest_food(first.agent, restored, food).agent,
          grid |-> restored]

(* update_path once start_avoid has returned danger *)
SeekBehind(a, danger, food) ==
    Retry(compute_path_to_nearest_food(a, danger.grid, food),
          stop_avoid(danger.grid, danger.layers), food)

(* update_path that retries without removing the danger layers first *)
astar_update_path_RetriesBehindLayers(id, ags, grid, food, alive) ==
    LET danger == start_avoid(grid, <<>>, OtherHeads(id, ags, alive), ags[id].caution_radius)
        first == compute_path_to_nearest_food(ags[id], danger.grid, food)
    IN  IF first.idx # 0
        THEN [agent |-> first.agent, grid |-> stop_avoid(danger.grid, danger.layers)]
        ELSE [agent |-> compute_path_to_nearest_food(first.agent, danger.grid, food).agent,
              grid |-> danger.grid]

(* AStarSnakeAgent.update_path *)
astar_update_path(id, ags, grid, food, alive) ==
    SeekBehind(ags[id],
               start_avoid(grid, <<>>, OtherHeads(id, ags, alive), ags[id].caution_radius),
               food)

(* ---- AStarOffensiveSnakeAgent ---- *)

RECURSIVE ProjectLoop(_, _, _, _, _, _)
ProjectLoop(ags, grid, targets, positions, i, acc) ==
    IF i > Len(targets) THEN acc
    ELSE LET pos == get_neighbor(positions[i], ags[targets[i]].dir)
         IN  IF get_obstacle_count(grid, pos) = 0
             THEN ProjectLoop(ags, grid, targets, positions, i + 1,
                              [targets |-> Append(acc.targets, targets[i]),
                               positions |-> Append(acc.positions, pos)])
             ELSE ProjectLoop(ags, grid, targets, positions, i + 1, acc)

RECURSIVE AttackLoop(_, _, _, _, _, _)
(* r: the outcome of compute_shortest_path to the projected positions new *)
Impact(a, ags, grid, new, impact_delay, r) ==
    IF Len(new.targets) > 0 /\ r.idx # 0
    THEN [agent |-> [r.agent EXCEPT !.target = new.targets[r.idx]], success |-> TRUE]
    ELSE AttackLoop(a, ags, grid, new.targets, new.positions, impact_delay + 1)

(* the round that accepts a path however early it reaches the projected cell *)
Anticipate_NoLowerBound(a, ags, grid, new, impact_delay) ==
    Impact(a, ags, grid, new, impact_delay,
           compute_shortest_path(a, grid, new.positions, 0, impact_delay))

(* one round of the loop on impact_delay, the heads projected as new *)
Anticipate(a, ags, grid, new, impact_delay) ==
    Impact(a, ags, grid, new, impact_delay,
           compute_shortest_path(a, grid, new.positions,
                                 impact_delay - Len(a.pos), impact_delay))

AttackLoop(a, ags, grid, targets, positions, impact_delay) ==
    IF impact_delay > a.attack_anticipation
    THEN [agent |-> [a EXCEPT !.target = NoAgent], success |-> FALSE]
    ELSE Anticipate(a, ags, grid,
                    ProjectLoop(ags, grid, targets, positions, 1,
                                [targets |-> <<>>, positions |-> <<>>]),
                    impact_delay)

compute_attack_path(a, ags, grid, potential_targets) ==
    AttackLoop(a, ags, grid, potential_targets,
               [i \in 1 .. Len(potential_targets) |-> get_head(ags[potential_targets[i]])], 1)

(* the targets of an update_path that forgets the locked target *)
PotentialTargets_AllOpponents(a, ags) == SelectSeq(a.opponents, LAMBDA o : ags[o].alive)

(* the targets update_path hands to compute_attack_path *)
PotentialTargets(a, ags) ==
    IF a.target # NoAgent /\ ags[a.target].alive THEN <<a.target>>
    ELSE SelectSeq(a.opponents, LAMBDA o : ags[o].alive)

(* update_path that does nothing more when the attack fails *)
AttackOrSeek_NoFallback(id, ags, grid, food, alive, r) == [agent |-> r.agent, grid |-> grid]

(* if not success: super().update_path(); r is the outcome of compute_attack_path *)
AttackOrSeek(id, ags, grid, food, alive, r) ==
    IF r.success THEN [agent |-> r.agent, grid |-> grid]
    ELSE astar_update_path(id, [ags EXCEPT ![id] = r.agent], grid, food, alive)

(* AStarOffensiveSnakeAgent.update_path *)
offensive_update_path(id, ags, grid, food, alive) ==
    AttackOrSeek(id, ags, grid, food, alive,
                 compute_attack_path(ags[id], ags, grid, PotentialTargets(ags[id], ags)))

update_path(id, ags, grid, food, alive) ==
    IF ags[id].kind = "offensive" THEN offensive_update_path(id, ags, grid, food, alive)
    ELSE astar_update_path(id, ags, grid, food, alive)

(* ---- decide_direction / get_direction ---- *)
(* decide_direction that takes the newest request instead of the oldest *)
player_decide_direction_PopsNewest(a) ==
    IF Len(a.dir_requests) > 0
    THEN [a EXCEPT !.dir = Last(a.dir_requests),
                   !.dir_requests = SubSeq(@, 1, Len(@) - 1)]
    ELSE a

player_decide_direction(a) ==
    IF Len(a.dir_requests) > 0
    THEN [a EXCEPT !.dir = Head(a.dir_requests), !.dir_requests = Tail(@)]
    ELSE a

FollowPath(a) ==
    IF Len(a.path) > 0
    THEN [a EXCEPT !.dir = Last(a.path).d, !.path = SubSeq(@, 1, Len(@) - 1)]
    ELSE a

(* self.cooldown = self.latency and the pop, r being what update_path left *)
Planned(r) ==
    [agent |-> FollowPath([r.agent EXCEPT !.cooldown = r.agent.latency]), grid |-> r.grid]

(* decide_direction that plans only when the cached path has run out *)
ai_decide_direction_WhenPathEmpty(id, ags, grid, food, alive) ==
    IF Len(ags[id].path) = 0
    THEN Planned(update_path(id, ags, grid, food, alive))
    ELSE [agent |-> FollowPath([ags[id] EXCEPT !.cooldown = @ - 1]), grid |-> grid]

ai_decide_direction(id, ags, grid, food, alive) ==
    IF ags[id].cooldown = 0 \/ Len(ags[id].path) = 0
    THEN Planned(update_path(id, ags, grid, food, alive))
    ELSE [agent |-> FollowPath([ags[id] EXCEPT !.cooldown = @ - 1]), grid |-> grid]

decide_direction(id, ags, grid, food, alive) ==
    IF ags[id].kind = "player"
    THEN [agent |-> player_decide_direction(ags[id]), grid |-> grid]
    ELSE ai_decide_direction(id, ags, grid, food, alive)

get_direction(a) == a.dir

(* the Decide loop of simulate() from its i-th agent on *)
RECURSIVE DecideLoop(_, _, _, _, _, _)
DecideLoop(alive, i, ags, grid, food, dirs) ==
    IF i > Len(alive) THEN [agents |-> ags, grid |-> grid, directions |-> dirs]
    ELSE LET r == decide_direction(alive[i], ags, grid, food, alive)
         IN  DecideLoop(alive, i + 1, [ags EXCEPT ![alive[i]] = r.agent], r.grid, food,
                        Append(dirs, get_direction(r.agent)))

(* add_dir_request that always compares the request with the current direction *)
add_dir_request_AgainstCurrent(a, request) ==
    IF Len(a.dir_requests) < MaxRequests
    THEN IF request # opposite_dir(a.dir)
         THEN [a EXCEPT !.dir_requests = Append(@, request)]
         ELSE a
    ELSE a

(* add_dir_request that queues a request whatever it reverses *)
add_dir_request_Unfiltered(a, request) ==
    IF Len(a.dir_requests) < MaxRequests
    THEN [a EXCEPT !.dir_requests = Append(@, request)]
    ELSE a

(* PlayerSnakeAgent.add_dir_request *)
add_dir_request(a, request) ==
    IF Len(a.dir_requests) < MaxRequests
    THEN LET last_dir == IF Len(a.dir_requests) > 0 THEN Last(a.dir_requests) ELSE a.dir
         IN  IF request # opposite_dir(last_dir)
             THEN [a EXCEPT !.dir_requests = Append(@, request)]
             ELSE a
    ELSE a

(* ---- construction ---- *)
AttackAnticipation == 2
RespawnCooldown == 1
MaxResets == 2

(* an agent as its constructor leaves it: pos = deque(initial_pos) *)
NewAgent(kind, initial_pos, initial_dir, latency, caution, opponents) ==
    [kind |-> kind, alive |-> TRUE,
     initial_pos |-> initial_pos, pos |-> initial_pos, last_tail_pos |-> NoPos,
     initial_dir |-> initial_dir, dir |-> initial_dir,
     dir_requests |-> <<>>,
     path |-> <<>>, heuristic_type |-> "euclidian",
     latency |-> latency, cooldown |-> 0, caution_radius |-> caution,
     attack_anticipation |-> AttackAnticipation, target |-> NoAgent,
     opponents |-> opponents]

(* build_game of __main__.py on the small arena: three vertical snakes side
   by side heading down, the players first; the AI snakes watch the player *)
Column(x, head_y, length) == [i \in 1 .. length |-> <<x, (head_y + 1 - i) % Height>>]

Game1 ==
    [agents |-> <<NewAgent("player", Column(0, 1, 2), DOWN, 0, 0, <<>>),
                  NewAgent("offensive", Column(Width - 1, 1, 2), DOWN, 0, 1, <<1>>),
                  NewAgent("astar", Column(1, 1, 2), DOWN, 1, 1, <<>>)>>,
     n_food |-> 1,
     respawn_cooldown |-> RespawnCooldown,
     ticks |-> MaxTicks]

(* a long manual snake next to a short food seeking one, no food, immediate
   respawn: the manual snake is respawned with its five cells on one cell *)
Game2 ==
    [agents |-> <<NewAgent("player", <<<<1, 1>>, <<1, 0>>, <<0, 0>>, <<0, 1>>, <<0, 2>>>>,
                           RIGHT, 0, 0, <<>>),
                  NewAgent("astar", Column(2, 1, 2), DOWN, 0, 1, <<>>)>>,
     n_food |-> 0,
     respawn_cooldown |-> 0,
     ticks |-> MaxTicks + 1]

(* the first game with an immediate respawn *)
Game3 == [Game1 EXCEPT !.respawn_cooldown = 0, !.ticks = MaxTicks - 1]

(* the first game with no respawn (respawn_cooldown=None) *)
Game4 == [Game1 EXCEPT !.respawn_cooldown = Infinity, !.ticks = MaxTicks - 1]

Games == {Game1, Game2, Game3, Game4}

VARIABLES
    obstacle_count, food_pos, respawn_cooldown, alive_agents, dead_agents,
    initial_n_food, initial_respawn_cooldown,
    agents,
    pc, directions, cut_lengths, growing, deads,
    pre, ticks, resets, tick_budget

vars == <<obstacle_count, food_pos, respawn_cooldown, alive_agents, dead_agents,
          initial_n_food, initial_respawn_cooldown, agents,
          pc, directions, cut_lengths, growing, deads, pre, ticks, resets,
          tick_budget>>

config == <<initial_n_food, initial_respawn_cooldown, tick_budget>>
locals == <<directions, cut_lengths, growing, deads>>

Agents == DOMAIN agents

Snapshot == [agents |-> agents, grid |-> obstacle_count, food |-> food_pos,
             alive |-> alive_agents]

(* SnakeWorld.__init__, then attach_agent for every agent, in any order *)
Init ==
    \E game \in Games :
        /\ agents = game.agents
        /\ alive_agents \in Orderings(DOMAIN game.agents)
        /\ dead_agents = <<>>
        /\ obstacle_count = [c \in Cells |-> 0]
        /\ food_pos = {}
        /\ initial_n_food = game.n_food
        /\ initial_respawn_cooldown = game.respawn_cooldown
        /\ respawn_cooldown = game.respawn_cooldown
        /\ pc = "idle"
        /\ directions = <<>> /\ cut_lengths = <<>> /\ growing = <<>> /\ deads = <<>>
        /\ pre = [agents |-> game.agents, grid |-> [c \in Cells |-> 0], food |-> {},
                  alive |-> alive_agents]
        /\ ticks = 0
        /\ tick_budget = game.ticks
        /\ resets = 0

(* SnakeWorld.reset: when the game starts, and a restart after the first tick *)
Reset ==
    /\ pc = "idle"
    /\ resets < MaxResets
    /\ resets > 0 => ticks = 1
    /\ LET alive == alive_agents \o dead_agents
           placed == PlaceLoop(alive, 1, agents, [c \in Cells |-> 0])
       IN  /\ food_pos' \in spawn_missing_food([c \in Cells |-> 0], {}, initial_n_food)
           /\ respawn_cooldown' = initial_respawn_cooldown
           /\ alive_agents' = alive
           /\ dead_agents' = <<>>
           /\ agents' = placed.agents
           /\ obstacle_count' = placed.grid
    /\ resets' = resets + 1
    /\ directions' = <<>> /\ cut_lengths' = <<>> /\ growing' = <<>> /\ deads' = <<>>
    /\ pre' = [agents |-> agents', grid |-> obstacle_count', food |-> food_pos',
               alive |-> alive_agents']
    /\ UNCHANGED <<config, pc, ticks>>

(* the input layer queues a direction request between two ticks *)
AddDirRequest ==
    /\ pc = "idle"
    /\ resets > 0
    /\ \E id \in Agents, request \in Directions :
          /\ agents[id].kind = "player"
          /\ Len(agents[id].dir_requests) < MaxPending
          /\ agents' = [agents EXCEPT ![id] = add_dir_request(@, request)]
    /\ UNCHANGED <<obstacle_count, food_pos, respawn_cooldown, alive_agents, dead_agents,
                   config, pc, locals, pre, ticks, resets>>

(* simulate() is entered: directions = [] *)
SimulateBegin ==
    /\ pc = "idle"
    /\ resets > 0
    /\ ticks < tick_budget
    /\ pc' = "decide"
    /\ directions' = <<>> /\ cut_lengths' = <<>> /\ growing' = <<>> /\ deads' = <<>>
    /\ pre' = Snapshot
    /\ ticks' = ticks + 1
    /\ UNCHANGED <<obstacle_count, food_pos, respawn_cooldown, alive_agents, dead_agents,
                   config, agents, resets>>

(* the agent id has decided and left r: directions.append(agent.get_direction()) *)
Decided(id, r) ==
    /\ agents' = [agents EXCEPT ![id] = r.agent]
    /\ obstacle_count' = r.grid
    /\ directions' = Append(directions, get_direction(r.agent))

(* one round of the first loop: agent.decide_direction(); directions.append(...) *)
Decide ==
    /\ pc = "decide"
    /\ Len(directions) < Len(alive_agents)
    /\ Decided(alive_agents[Len(directions) + 1],
               decide_direction(alive_agents[Len(directions) + 1], agents, obstacle_count,
                                food_pos, alive_agents))
    /\ UNCHANGED <<food_pos, respawn_cooldown, alive_agents, dead_agents, config,
                   pc, cut_lengths, growing, deads, pre, ticks, resets>>

(* the second loop, once every agent has decided: agent.move(d) *)
Move ==
    /\ pc = "decide"
    /\ Len(directions) = Len(alive_agents)
    /\ LET r == MoveLoop(alive_agents, directions, 1, agents, obstacle_count)
       IN  agents' = r.agents /\ obstacle_count' = r.grid
    /\ pc' = "self_collision"
    /\ UNCHANGED <<food_pos, respawn_cooldown, alive_agents, dead_agents, config,
                   locals, pre, ticks, resets>>

(* resolves the snakes which eat their own tail *)
SelfCollision ==
    /\ pc = "self_collision"
    /\ LET cuts == CutLengths(alive_agents, agents, obstacle_count)
           r == CutLoop(alive_agents, cuts, 1, agents, obstacle_count)
       IN  cut_lengths' = cuts /\ agents' = r.agents /\ obstacle_count' = r.grid
    /\ pc' = "food"
    /\ UNCHANGED <<food_pos, respawn_cooldown, alive_agents, dead_agents, config,
                   directions, growing, deads, pre, ticks, resets>>

(* resolves the snakes which eat food and grow *)
Food ==
    /\ pc = "food"
    /\ LET eaten == ConsumeLoop(alive_agents, 1, agents, food_pos, <<>>)
           r == GrowLoop(eaten.growing, 1, agents, obstacle_count)
       IN  /\ food_pos' = eaten.food
           /\ growing' = eaten.growing
           /\ agents' = r.agents
           /\ obstacle_count' = r.grid
    /\ pc' = "collision"
    /\ UNCHANGED <<respawn_cooldown, alive_agents, dead_agents, config,
                   directions, cut_lengths, deads, pre, ticks, resets>>

(* the collision phase without shuffle(deads) *)
Collision_Unshuffled ==
    /\ pc = "collision"
    /\ LET r == CollisionLoop(alive_agents, 1, agents, obstacle_count, <<>>)
       IN  /\ agents' = r.agents
           /\ obstacle_count' = r.grid
           /\ deads' = r.deads
           /\ alive_agents' = RemoveAll(alive_agents, Range(r.deads))
           /\ dead_agents' = dead_agents \o deads'
    /\ pc' = "spawn_food"
    /\ UNCHANGED <<food_pos, respawn_cooldown, config,
                   directions, cut_lengths, growing, pre, ticks, resets>>

(* kills each snake which collides another snake: the loop, shuffle(deads)
   and _kill_agents(deads) *)
(* the collision phase whose _kill_agents leaves the dead in alive_agents *)
Collision_KeepsListed ==
    /\ pc = "collision"
    /\ LET r == CollisionLoop(alive_agents, 1, agents, obstacle_count, <<>>)
       IN  /\ agents' = r.agents
           /\ obstacle_count' = r.grid
           /\ deads' \in Rearrangements(r.deads)
           /\ alive_agents' = alive_agents
           /\ dead_agents' = dead_agents \o deads'
    /\ pc' = "spawn_food"
    /\ UNCHANGED <<food_pos, respawn_cooldown, config,
                   directions, cut_lengths, growing, pre, ticks, resets>>

Collision ==
    /\ pc = "collision"
    /\ LET r == CollisionLoop(alive_agents, 1, agents, obstacle_count, <<>>)
       IN  /\ agents' = r.agents
           /\ obstacle_count' = r.grid
           /\ deads' \in Rearrangements(r.deads)
           /\ alive_agents' = RemoveAll(alive_agents, Range(r.deads))
           /\ dead_agents' = dead_agents \o deads'
    /\ pc' = "spawn_food"
    /\ UNCHANGED <<food_pos, respawn_cooldown, config,
                   directions, cut_lengths, growing, pre, ticks, resets>>

(* respawns the foods which has been eaten *)
SpawnFood ==
    /\ pc = "spawn_food"
    /\ food_pos' \in spawn_missing_food(obstacle_count, food_pos, initial_n_food)
    /\ pc' = "respawn"
    /\ UNCHANGED <<obstacle_count, respawn_cooldown, alive_agents, dead_agents, config,
                   agents, locals, pre, ticks, resets>>

(* the respawn phase that takes the newest dead agent *)
Respawn_NewestFirst ==
    /\ pc = "respawn"
    /\ pc' = "idle"
    /\ IF Len(dead_agents) = 0
       THEN UNCHANGED <<obstacle_count, respawn_cooldown, alive_agents, dead_agents, agents>>
       ELSE IF respawn_cooldown > 0 \/ respawn_cooldown = Infinity
       THEN /\ respawn_cooldown' =
                   IF respawn_cooldown = Infinity THEN Infinity ELSE respawn_cooldown - 1
            /\ UNCHANGED <<obstacle_count, alive_agents, dead_agents, agents>>
       ELSE \E spawn_pos \in SpawnCandidates(obstacle_count) :
               IF spawn_pos = NoPos
               THEN UNCHANGED <<obstacle_count, respawn_cooldown, alive_agents,
                                dead_agents, agents>>
               ELSE LET id == Last(dead_agents)
                        spawn_length == Len(agents[id].initial_pos)
                        spawn_dir == toward_center(spawn_pos[1], spawn_pos[2])
                    IN  /\ dead_agents' = SubSeq(dead_agents, 1, Len(dead_agents) - 1)
                        /\ agents' = [agents EXCEPT ![id] =
                               agent_reset(@, [i \in 1 .. spawn_length |-> spawn_pos],
                                           spawn_dir)]
                        /\ alive_agents' = Append(alive_agents, id)
                        /\ obstacle_count' =
                               incr_obstacle_count(obstacle_count, spawn_pos, spawn_length)
                        /\ respawn_cooldown' = respawn_cooldown + initial_respawn_cooldown
    /\ UNCHANGED <<food_pos, config, locals, pre, ticks, resets>>

(* the respawn phase that restarts the cooldown when placement fails *)
Respawn_WaitsAfterFailure ==
    /\ pc = "respawn"
    /\ pc' = "idle"
    /\ IF Len(dead_agents) = 0
       THEN UNCHANGED <<obstacle_count, respawn_cooldown, alive_agents, dead_agents, agents>>
       ELSE IF respawn_cooldown > 0 \/ respawn_cooldown = Infinity
       THEN /\ respawn_cooldown' =
                   IF respawn_cooldown = Infinity THEN Infinity ELSE respawn_cooldown - 1
            /\ UNCHANGED <<obstacle_count, alive_agents, dead_agents, agents>>
       ELSE \E spawn_pos \in SpawnCandidates(obstacle_count) :
               IF spawn_pos = NoPos
               THEN /\ respawn_cooldown' = respawn_cooldown + initial_respawn_cooldown
                    /\ UNCHANGED <<obstacle_count, alive_agents, dead_agents, agents>>
               ELSE LET id == Head(dead_agents)
                        spawn_length == Len(agents[id].initial_pos)
                        spawn_dir == toward_center(spawn_pos[1], spawn_pos[2])
                    IN  /\ dead_agents' = Tail(dead_agents)
                        /\ agents' = [agents EXCEPT ![id] =
                               agent_reset(@, [i \in 1 .. spawn_length |-> spawn_pos],
                                           spawn_dir)]
                        /\ alive_agents' = Append(alive_agents, id)
                        /\ obstacle_count' =
                               incr_obstacle_count(obstacle_count, spawn_pos, spawn_length)
                        /\ respawn_cooldown' = respawn_cooldown + initial_respawn_cooldown
    /\ UNCHANGED <<food_pos, config, locals, pre, ticks, resets>>

(* the respawn phase that counts the cooldown down with no dead agent too *)
Respawn_CountsWithoutDead ==
    /\ pc = "respawn"
    /\ pc' = "idle"
    /\ IF Len(dead_agents) = 0 /\ respawn_cooldown <= 0
       THEN UNCHANGED <<obstacle_count, respawn_cooldown, alive_agents, dead_agents, agents>>
       ELSE IF respawn_cooldown > 0 \/ respawn_cooldown = Infinity
       THEN /\ respawn_cooldown' =
                   IF respawn_cooldown = Infinity THEN Infinity ELSE respawn_cooldown - 1
            /\ UNCHANGED <<obstacle_count, alive_agents, dead_agents, agents>>
       ELSE \E spawn_pos \in SpawnCandidates(obstacle_count) :
               IF spawn_pos = NoPos
               THEN UNCHANGED <<obstacle_count, respawn_cooldown, alive_agents,
                                dead_agents, agents>>
               ELSE LET id == Head(dead_agents)
                        spawn_length == Len(agents[id].initial_pos)
                        spawn_dir == toward_center(spawn_pos[1], spawn_pos[2])
                    IN  /\ dead_agents' = Tail(dead_agents)
                        /\ agents' = [agents EXCEPT ![id] =
                               agent_reset(@, [i \in 1 .. spawn_length |-> spawn_pos],
                                           spawn_dir)]
                        /\ alive_agents' = Append(alive_agents, id)
                        /\ obstacle_count' =
                               incr_obstacle_count(obstacle_count, spawn_pos, spawn_length)
                        /\ respawn_cooldown' = respawn_cooldown + initial_respawn_cooldown
    /\ UNCHANGED <<food_pos, config, locals, pre, ticks, resets>>

(* the respawn phase that leaves the cooldown at zero after a placement *)
Respawn_KeepsCooldown ==
    /\ pc = "respawn"
    /\ pc' = "idle"
    /\ IF Len(dead_agents) = 0
       THEN UNCHANGED <<obstacle_count, respawn_cooldown, alive_agents, dead_agents, agents>>
       ELSE IF respawn_cooldown > 0 \/ respawn_cooldown = Infinity
       THEN /\ respawn_cooldown' =
                   IF respawn_cooldown = Infinity THEN Infinity ELSE respawn_cooldown - 1
            /\ UNCHANGED <<obstacle_count, alive_agents, dead_agents, agents>>
       ELSE \E spawn_pos \in SpawnCandidates(obstacle_count) :
               IF spawn_pos = NoPos
               THEN UNCHANGED <<obstacle_count, respawn_cooldown, alive_agents,
                                dead_agents, agents>>
               ELSE LET id == Head(dead_agents)
                        spawn_length == Len(agents[id].initial_pos)
                        spawn_dir == toward_center(spawn_pos[1], spawn_pos[2])
                    IN  /\ dead_agents' = Tail(dead_agents)
                        /\ agents' = [agents EXCEPT ![id] =
                               agent_reset(@, [i \in 1 .. spawn_length |-> spawn_pos],
                                           spawn_dir)]
                        /\ alive_agents' = Append(alive_agents, id)
                        /\ obstacle_count' =
                               incr_obstacle_count(obstacle_count, spawn_pos, spawn_length)
                        /\ respawn_cooldown' = respawn_cooldown
    /\ UNCHANGED <<food_pos, config, locals, pre, ticks, resets>>

(* _respawn_dead_agent, then simulate() returns deads *)
(* the respawn phase that never counts the cooldown down *)
Respawn_HoldsCooldown ==
    /\ pc = "respawn"
    /\ pc' = "idle"
    /\ IF Len(dead_agents) = 0
       THEN UNCHANGED <<obstacle_count, respawn_cooldown, alive_agents, dead_agents, agents>>
       ELSE IF respawn_cooldown > 0 \/ respawn_cooldown = Infinity
       THEN UNCHANGED <<obstacle_count, respawn_cooldown, alive_agents, dead_agents, agents>>
       ELSE \E spawn_pos \in SpawnCandidates(obstacle_count) :
               IF spawn_pos = NoPos
               THEN UNCHANGED <<obstacle_count, respawn_cooldown, alive_agents,
                                dead_agents, agents>>
               ELSE LET id == Head(dead_agents)
                        spawn_length == Len(agents[id].initial_pos)
                        spawn_dir == toward_center(spawn_pos[1], spawn_pos[2])
                    IN  /\ dead_agents' = Tail(dead_agents)
                        /\ agents' = [agents EXCEPT ![id] =
                               agent_reset(@, [i \in 1 .. spawn_length |-> spawn_pos],
                                           spawn_dir)]
                        /\ alive_agents' = Append(alive_agents, id)
                        /\ obstacle_count' =
                               incr_obstacle_count(obstacle_count, spawn_pos, spawn_length)
                        /\ respawn_cooldown' = respawn_cooldown + initial_respawn_cooldown
    /\ UNCHANGED <<food_pos, config, locals, pre, ticks, resets>>

Respawn ==
    /\ pc = "respawn"
    /\ pc' = "idle"
    /\ IF Len(dead_agents) = 0
       THEN UNCHANGED <<obstacle_count, respawn_cooldown, alive_agents, dead_agents, agents>>
       ELSE IF respawn_cooldown > 0 \/ respawn_cooldown = Infinity
       THEN /\ respawn_cooldown' =
                   IF respawn_cooldown = Infinity THEN Infinity ELSE respawn_cooldown - 1
            /\ UNCHANGED <<obstacle_count, alive_agents, dead_agents, agents>>
       ELSE \E spawn_pos \in SpawnCandidates(obstacle_count) :
               IF spawn_pos = NoPos
               THEN UNCHANGED <<obstacle_count, respawn_cooldown, alive_agents,
                                dead_agents, agents>>
               ELSE LET id == Head(dead_agents)
                        spawn_length == Len(agents[id].initial_pos)
                        spawn_dir == toward_center(spawn_pos[1], spawn_pos[2])
                    IN  /\ dead_agents' = Tail(dead_agents)
                        /\ agents' = [agents EXCEPT ![id] =
                               agent_reset(@, [i \in 1 .. spawn_length |-> spawn_pos],
                                           spawn_dir)]
                        /\ alive_agents' = Append(alive_agents, id)
                        /\ obstacle_count' =
                               incr_obstacle_count(obstacle_count, spawn_pos, spawn_length)
                        /\ respawn_cooldown' = respawn_cooldown + initial_respawn_cooldown
    /\ UNCHANGED <<food_pos, config, locals, pre, ticks, resets>>

Next ==
    \/ Reset
    \/ AddDirRequest
    \/ SimulateBegin
    \/ Decide
    \/ Move
    \/ SelfCollision
    \/ Food
    \/ Collision
    \/ SpawnFood
    \/ Respawn

Spec == Init /\ [][Next]_vars

(* ---- the claims ---- *)

RECURSIVE SumOver(_, _)
SumOver(f, S) ==
    IF S = {} THEN 0
    ELSE LET x == CHOOSE y \in S : TRUE IN f[x] + SumOver(f, S \ {x})

SumGrid == SumOver(obstacle_count, Cells)
SumBodies == SeqSum([i \in 1 .. Len(alive_agents) |-> Len(agents[alive_agents[i]].pos)])

(* the number of body cells that the agents listed in alive have on cell c *)
BodyCount(c, alive, ags) ==
    SeqSum([i \in 1 .. Len(alive) |->
               Cardinality({k \in 1 .. Len(ags[alive[i]].pos) : ags[alive[i]].pos[k] = c})])

AtTickBoundary == pc = "idle" /\ resets > 0

(* C1: grid conservation. After reset() and after every simulate(), the sum
   of the obstacle counters equals the sum of the body lengths of the agents
   in alive_agents; cell by cell the counter is the number of body cells of
   alive agents on it, so no danger marker and no cell of a dead agent is
   still counted. *)
C1_GridConservation ==
    AtTickBoundary =>
        /\ SumGrid = SumBodies
        /\ \A c \in Cells : obstacle_count[c] = BodyCount(c, alive_agents, agents)

(* a tick in which an agent died, an agent grew and an AI agent planned *)
C1_Witness ==
    /\ AtTickBoundary /\ ticks > 0
    /\ Len(deads) > 0 /\ Len(growing) > 0
    /\ \E a \in Range(pre.alive) : agents[a].kind # "player"

(* C2: head-to-head death. Two alive snakes whose moves put both heads on
   the same cell, free before the tick, are both in the list simulate()
   returns. *)
C2_HeadToHeadDeath ==
    pc = "spawn_food" =>
        \A a, b \in Range(pre.alive) :
            (/\ a # b
             /\ get_head(agents[a]) = get_head(agents[b])
             /\ pre.grid[get_head(agents[a])] = 0)
            => (a \in Range(deads) /\ b \in Range(deads))

(* C3: cross-agent collision. In the collision phase an agent dies if and
   only if, on the grid left by the growth phase, its head cell also holds a
   cell of another agent alive at the start of the phase. *)
C3_CrossCollision ==
    [][pc = "collision" =>
          \A a \in Range(alive_agents) :
              (a \in Range(deads')) <=>
                  (/\ obstacle_count[get_head(agents[a])] > 1
                   /\ \E b \in Range(alive_agents) :
                         b # a /\ get_head(agents[a]) \in Range(agents[b].pos))]_vars

(* the moves, cuts, meals, growths and deaths of one tick, for the agents
   listed in alive with the decided directions dirs *)
Resolve(alive, dirs, ags, grid, food) ==
    LET moved == MoveLoop(alive, dirs, 1, ags, grid)
        cuts == CutLengths(alive, moved.agents, moved.grid)
        trimmed == CutLoop(alive, cuts, 1, moved.agents, moved.grid)
        eaten == ConsumeLoop(alive, 1, trimmed.agents, food, <<>>)
        grown == GrowLoop(eaten.growing, 1, trimmed.agents, trimmed.grid)
        killed == CollisionLoop(alive, 1, grown.agents, grown.grid, <<>>)
    IN  [dead |-> Range(killed.deads),
         bodies |-> [a \in Range(alive) \ Range(killed.deads) |-> killed.agents[a].pos],
         consumed |-> food \ eaten.food]

Reorder(s, p) == [i \in 1 .. Len(s) |-> s[p[i]]]

(* C4: resolution is order-independent. With the same pre-tick state and the
   same decided directions, every order of alive_agents gives the same dead
   agents, the same bodies of the survivors and the same food consumed. *)
C4_ResolutionOrderIndependent ==
    (pc = "decide" /\ Len(directions) = Len(alive_agents)) =>
        \A p \in Orderings(1 .. Len(alive_agents)) :
            Resolve(Reorder(alive_agents, p), Reorder(directions, p),
                    agents, obstacle_count, food_pos)
            = Resolve(alive_agents, directions, agents, obstacle_count, food_pos)

(* C5: decisions are order-independent. From the same pre-tick state every
   agent decides the same direction whatever the order of alive_agents. *)
C5_DecisionOrderIndependent ==
    (pc = "decide" /\ directions = <<>>) =>
        \A p \in Orderings(1 .. Len(alive_agents)) :
            \A a \in Range(alive_agents) :
                DecideLoop(Reorder(alive_agents, p), 1, agents, obstacle_count,
                           food_pos, <<>>).agents[a].dir
                = DecideLoop(alive_agents, 1, agents, obstacle_count,
                             food_pos, <<>>).agents[a].dir

(* C6: decide-then-apply. While the agents decide, between two calls of
   decide_direction, every body, the food set, the list of alive agents and
   the obstacle grid are those of the start of the tick; and a body changes
   during the tick only once every alive agent has decided. *)
C6_DecideThenApply ==
    /\ [](pc = "decide" =>
            /\ obstacle_count = pre.grid
            /\ food_pos = pre.food
            /\ alive_agents = pre.alive
            /\ \A a \in Agents : agents[a].pos = pre.agents[a].pos)
    /\ [][(pc = "decide" /\ \E a \in Agents : agents'[a].pos # agents[a].pos)
             => Len(directions) = Len(alive_agents)]_vars

(* every agent has decided, and a food seeking agent planned behind danger
   layers that marked at least one cell *)
C6_Witness ==
    /\ pc = "decide" /\ Len(directions) = Len(alive_agents)
    /\ \E a \in Range(alive_agents) :
          /\ agents[a].kind = "astar"
          /\ agents[a].cooldown = agents[a].latency
          /\ \E k \in 1 .. agents[a].caution_radius :
                Len(start_avoid(pre.grid, <<>>, OtherHeads(a, pre.agents, pre.alive),
                                agents[a].caution_radius).layers[k]) > 0

(* the cells of the body s before its k-th cell that lie on c *)
CutOn(s, k, c) == Cardinality({j \in 1 .. k : s[j] = c})

(* the self-collision phase, for a snake whose head lies on an earlier cell of
   its body: the cut length is the 1-based rank k of the first occurrence of
   the head, the body left is what follows that occurrence, and each counter
   loses the cut cells that were on it *)
CutStep ==
    /\ \A i \in 1 .. Len(alive_agents) :
          LET a == alive_agents[i]
              body == agents[a].pos
              head == Last(body)
          IN  IF \E k \in 1 .. Len(body) - 1 : body[k] = head
              THEN \E k \in 1 .. Len(body) - 1 :
                      /\ body[k] = head
                      /\ \A j \in 1 .. k - 1 : body[j] # head
                      /\ cut_lengths'[i] = k % Len(body)
                      /\ agents'[a].pos = SubSeq(body, k + 1, Len(body))
                      /\ Len(agents'[a].pos) > 0
              ELSE cut_lengths'[i] = 0 /\ agents'[a].pos = body
    /\ \A c \in Cells :
          obstacle_count'[c] =
              obstacle_count[c]
              - SeqSum([i \in 1 .. Len(alive_agents) |->
                           CutOn(agents[alive_agents[i]].pos, cut_lengths'[i], c)])

(* an agent in the death list has its head on a cell of another agent *)
DeathNeedsAnother ==
    \A a \in Range(deads') :
        \E b \in Range(alive_agents) :
            b # a /\ get_head(agents[a]) \in Range(agents[b].pos)

(* the body left by the cut holds the head position at the head only *)
HeadOnlyAtHead ==
    \A a \in Range(alive_agents) :
        \A k \in 1 .. Len(agents'[a].pos) - 1 :
            agents'[a].pos[k] # Last(agents'[a].pos)

(* the body left by the cut holds the head position once less than before *)
HeadOnceLess ==
    \A i \in 1 .. Len(alive_agents) :
        LET a == alive_agents[i]
            head == Last(agents[a].pos)
        IN  cut_lengths'[i] > 0 =>
                CutOn(agents'[a].pos, Len(agents'[a].pos), head)
                = CutOn(agents[a].pos, Len(agents[a].pos), head) - 1

(* C7: self-collision cut. A snake whose head lies on an earlier cell of its
   body is cut by (index of the first occurrence of the head from the tail
   + 1) mod length cells from the tail, counters decremented; the body left is
   non-empty and starts after that first occurrence, so it holds the head
   position once less than before; the snake is not in the death list for
   this alone. *)
C7_SelfCollisionCut ==
    [][/\ pc = "self_collision" => (CutStep /\ HeadOnceLess)
       /\ pc = "collision" => DeathNeedsAnother]_vars

(* C7 as stated: the body left holds the head position at the head only *)
C7_SelfCollisionCut_Stated ==
    [][/\ pc = "self_collision" => (CutStep /\ HeadOnlyAtHead)
       /\ pc = "collision" => DeathNeedsAnother]_vars

(* a snake has just been cut and is alive in the next phase *)
C7_Witness ==
    /\ pc = "food"
    /\ \E i \in 1 .. Len(alive_agents) :
          /\ cut_lengths[i] > 0
          /\ Len(agents[alive_agents[i]].pos) + cut_lengths[i]
             = Len(pre.agents[alive_agents[i]].pos)

(* the heads of alive agents on the cell p *)
HeadsOn(p) == {a \in Range(alive_agents) : get_head(agents[a]) = p}

(* C8: food consumption. In the food phase a food cell leaves food_pos if
   and only if exactly one alive agent's head is on it, that agent being then
   granted growth; a food cell with two heads or more stays and grants no
   growth. *)
C8_FoodConsumption ==
    [][pc = "food" =>
          /\ food_pos' \subseteq food_pos
          /\ \A f \in food_pos : (f \notin food_pos') <=> Cardinality(HeadsOn(f)) = 1
          /\ \A a \in Range(alive_agents) :
                (a \in Range(growing')) <=>
                    (get_head(agents[a]) \in food_pos
                     /\ HeadsOn(get_head(agents[a])) = {a})]_vars

(* two heads are on one food cell when the food phase starts *)
C8_Witness ==
    /\ pc = "food"
    /\ \E f \in food_pos : Cardinality(HeadsOn(f)) >= 2

(* the growth of the food phase: an agent granted growth gets the cell its
   tail left in the move phase back at its tail, whose counter gains one; the
   other bodies do not change *)
GrowStep ==
    /\ \A a \in Range(alive_agents) :
          IF a \in Range(growing')
          THEN /\ agents'[a].pos = <<Head(pre.agents[a].pos)>> \o agents[a].pos
               /\ agents[a].last_tail_pos = Head(pre.agents[a].pos)
          ELSE agents'[a].pos = agents[a].pos
    /\ \A c \in Cells :
          obstacle_count'[c] =
              obstacle_count[c]
              + Cardinality({a \in Range(growing') : Head(pre.agents[a].pos) = c})
    /\ \A i \in 1 .. Len(alive_agents) :
          (alive_agents[i] \in Range(growing') /\ cut_lengths[i] = 0)
          => Len(agents'[alive_agents[i]].pos) = Len(pre.agents[alive_agents[i]].pos) + 1

(* at the end of the tick, the agents that ate and were not cut, those that
   died in the tick left aside when spare is TRUE *)
OneCellLonger(spare) ==
    (pc = "idle" /\ ticks > 0) =>
        \A i \in 1 .. Len(pre.alive) :
            LET a == pre.alive[i]
            IN  (/\ a \in Range(growing)
                 /\ cut_lengths[i] = 0
                 /\ ~(spare /\ a \in Range(deads)))
                => Len(agents[a].pos) = Len(pre.agents[a].pos) + 1

(* C9: growth. Every agent that consumed food regrows one cell at its tail,
   at the position its tail left in the move phase of the tick, whose counter
   gains one; an agent that ate and was not cut is one cell longer after the
   growth phase, and still at the end of the tick unless it died in the tick;
   an agent that did not eat does not grow. *)
C9_Growth ==
    /\ [][pc = "food" => GrowStep]_vars
    /\ []OneCellLonger(TRUE)

(* C9 as stated: every agent that ate and was not cut ends the tick one cell
   longer than it started *)
C9_Growth_Stated ==
    /\ [][pc = "food" => GrowStep]_vars
    /\ []OneCellLonger(FALSE)

(* an agent that ate in the tick, uncut, alive at the end of the tick *)
C9_Witness ==
    /\ pc = "idle" /\ ticks > 0
    /\ \E i \in 1 .. Len(pre.alive) :
          /\ pre.alive[i] \in Range(growing)
          /\ cut_lengths[i] = 0
          /\ pre.alive[i] \notin Range(deads)
          /\ pre.alive[i] \in Range(alive_agents)

(* the caution radii of the round trip *)
MaxCaution == 2

(* the heads of the agents of S, in the order o of their ranks *)
HeadsOf(o) == [i \in 1 .. Len(o) |-> get_head(agents[o[i]])]

(* C10: scoped mutation round trip. On the grid of any tick, for any caution
   radius and any rivals in any order, stop_avoid on the layers start_avoid
   returned gives the grid back cell by cell; and update_path of every alive
   AI agent returns with the grid unchanged. *)
C10_AvoidRoundTrip ==
    (pc = "decide" /\ directions = <<>>) =>
        /\ \A radius \in 0 .. MaxCaution :
              \A S \in SUBSET Range(alive_agents) :
                  \A o \in Orderings(S) :
                      LET r == start_avoid(obstacle_count, <<>>, HeadsOf(o), radius)
                      IN  stop_avoid(r.grid, r.layers) = obstacle_count
        /\ \A a \in Range(alive_agents) :
              agents[a].kind # "player" =>
                  update_path(a, agents, obstacle_count, food_pos, alive_agents).grid
                  = obstacle_count

(* an AI agent whose danger layers mark cells plans: behind them the search
   for food fails, and the retry without them succeeds *)
C10_Witness ==
    /\ pc = "decide" /\ directions = <<>>
    /\ \E a \in Range(alive_agents) :
          /\ agents[a].kind # "player"
          /\ LET danger == start_avoid(obstacle_count, <<>>,
                                       OtherHeads(a, agents, alive_agents),
                                       agents[a].caution_radius)
             IN  /\ danger.grid # obstacle_count
                 /\ compute_path_to_nearest_food(agents[a], danger.grid, food_pos).idx = 0
                 /\ compute_path_to_nearest_food(agents[a], obstacle_count, food_pos).idx # 0

(* ---- a manual agent alone with its request queue ---- *)

(* a manual agent just constructed, facing any direction; pre records the
   last call: its name, its argument and the agent before the call, and the
   direction of the last move with whether a move came before it *)
QueueInit ==
    /\ \E d \in Directions :
          agents = <<NewAgent("player", Column(0, 1, 2), d, 0, 0, <<>>)>>
    /\ alive_agents = <<1>> /\ dead_agents = <<>>
    /\ obstacle_count = [c \in Cells |-> IF c \in Range(Column(0, 1, 2)) THEN 1 ELSE 0]
    /\ food_pos = {}
    /\ initial_n_food = 0
    /\ initial_respawn_cooldown = 0 /\ respawn_cooldown = 0
    /\ pc = "queue"
    /\ directions = <<>> /\ cut_lengths = <<>> /\ growing = <<>> /\ deads = <<>>
    /\ pre = [op |-> "none", request |-> NoPos, before |-> agents[1],
              moved |-> NoPos, twice |-> FALSE]
    /\ ticks = 0 /\ tick_budget = 0 /\ resets = 0

(* the input layer calls add_dir_request(request) *)
QueueAdd ==
    /\ \E request \in Directions :
          /\ agents' = [agents EXCEPT ![1] = add_dir_request(@, request)]
          /\ pre' = [pre EXCEPT !.op = "add", !.request = request, !.before = agents[1]]
    /\ UNCHANGED <<obstacle_count, food_pos, respawn_cooldown, alive_agents, dead_agents,
                   config, pc, locals, ticks, resets>>

(* a tick calls decide_direction() *)
QueueDecide ==
    /\ pc = "queue"
    /\ pc' = "move"
    /\ agents' = [agents EXCEPT ![1] = player_decide_direction(@)]
    /\ pre' = [pre EXCEPT !.op = "decide", !.request = NoPos, !.before = agents[1]]
    /\ UNCHANGED <<obstacle_count, food_pos, respawn_cooldown, alive_agents, dead_agents,
                   config, locals, ticks, resets>>

(* the tick then calls move(get_direction()) *)
QueueMoved(r) ==
    /\ agents' = [agents EXCEPT ![1] = r.agent]
    /\ obstacle_count' = r.grid

QueueMove ==
    /\ pc = "move"
    /\ pc' = "queue"
    /\ QueueMoved(move(agents[1], obstacle_count, get_direction(agents[1])))
    /\ pre' = [op |-> "move", request |-> NoPos, before |-> agents[1],
               moved |-> get_direction(agents[1]), twice |-> pre.moved # NoPos]
    /\ UNCHANGED <<food_pos, respawn_cooldown, alive_agents, dead_agents,
                   config, locals, ticks, resets>>

QueueNext == QueueAdd \/ QueueDecide \/ QueueMove

QueueSpec == QueueInit /\ [][QueueNext]_vars

(* C11: anti-reversal and silent rejection. add_dir_request(d) leaves the
   queue and the direction as they were when the queue holds 5 requests, or
   when d is the opposite of the last queued request (of the direction when
   the queue is empty); any other request is appended at the back. *)
C11_AntiReversal ==
    pre.op = "add" =>
        LET queue == pre.before.dir_requests
            last_dir == IF Len(queue) > 0 THEN queue[Len(queue)] ELSE pre.before.dir
            rejected == \/ Len(queue) >= 5
                        \/ pre.request = <<0 - last_dir[1], 0 - last_dir[2]>>
        IN  /\ agents[1].dir = pre.before.dir
            /\ agents[1].dir_requests
               = IF rejected THEN queue ELSE queue \o <<pre.request>>

(* a request has been rejected for reversing the last queued request, though
   it does not reverse the direction and the queue is not full *)
C11_Witness ==
    /\ pre.op = "add"
    /\ agents[1].dir_requests = pre.before.dir_requests
    /\ Len(pre.before.dir_requests) > 0
    /\ Len(pre.before.dir_requests) < 5
    /\ pre.request # opposite_dir(pre.before.dir)

(* C12: manual queue discipline. The queue never holds more than 5
   requests; decide_direction() sets the direction to the oldest pending
   request and removes that one only, or changes nothing when none is
   pending. *)
C12_QueueDiscipline ==
    /\ Len(agents[1].dir_requests) <= 5
    /\ pre.op = "decide" =>
          LET queue == pre.before.dir_requests
          IN  IF Len(queue) > 0
              THEN /\ agents[1].dir = queue[1]
                   /\ agents[1].dir_requests = [k \in 1 .. Len(queue) - 1 |-> queue[k + 1]]
              ELSE agents[1] = pre.before

(* decide_direction() has taken the oldest of five pending requests, the
   newest of which is another direction *)
C12_Witness ==
    /\ pre.op = "decide"
    /\ Len(pre.before.dir_requests) = 5
    /\ pre.before.dir_requests[1] # pre.before.dir_requests[5]
    /\ agents[1].dir = pre.before.dir_requests[1]

(* the cell behind the head of a body of two cells or more *)
Neck(a) == a.pos[Len(a.pos) - 1]

(* C34: a manual snake never reverses. Whatever the interleaving of
   add_dir_request() and decide_direction(), the direction decided at a tick
   is never the opposite of the direction of the move of the previous tick,
   and a snake of two cells or more that has moved before never moves its
   head onto the cell its neck was on. *)
C34_ManualNoReversal ==
    /\ pre.op = "decide" /\ pre.moved # NoPos =>
          get_direction(agents[1]) # opposite_dir(pre.moved)
    /\ pre.op = "move" /\ pre.twice /\ Len(pre.before.pos) >= 2 =>
          Last(agents[1].pos) # Neck(pre.before)

(* the snake has moved twice and the queue still holds a request for the
   opposite of the direction it moves in, accepted because it follows a turn *)
C34_Witness ==
    /\ pre.op = "move" /\ pre.twice
    /\ \E k \in 1 .. Len(agents[1].dir_requests) :
          agents[1].dir_requests[k] = opposite_dir(pre.moved)

(* ---- planning ---- *)

(* the agent whose turn it is in the decision loop, NoAgent outside it *)
Deciding ==
    IF pc = "decide" /\ Len(directions) < Len(alive_agents)
    THEN alive_agents[Len(directions) + 1]
    ELSE NoAgent

(* decide_direction of agent id is about to call update_path *)
Replans(id) ==
    /\ id # NoAgent
    /\ agents[id].kind # "player"
    /\ agents[id].cooldown = 0 \/ Len(agents[id].path) = 0

(* the heads of the living agents other than id *)
RivalHeads(id) ==
    {get_head(agents[o]) : o \in {alive_agents[i] : i \in 1 .. Len(alive_agents)} \ {id}}

Adjacent(c, heads) == \E d \in Directions : get_neighbor(c, d) \in heads

(* the free cells that are adjacent to no rival head *)
SafeCells(id) == {c \in Cells : obstacle_count[c] = 0 /\ ~Adjacent(c, RivalHeads(id))}

(* the cells a walk from the cells of reached through the cells of safe can enter *)
RECURSIVE Reachable(_, _)
Reachable(reached, safe) ==
    LET more == reached \cup {c \in safe : Adjacent(c, reached)}
    IN  IF more = reached THEN reached ELSE Reachable(more, safe)

SafeFood(id) == food_pos \cap SafeCells(id) \cap Reachable({get_head(agents[id])}, SafeCells(id))

(* the cells of the path update_path leaves in the cache of agent id *)
Cached(id) == update_path(id, agents, obstacle_count, food_pos, alive_agents).agent.path

(* the cached path ends on a food cell and stays on the cells of safe *)
SafePathToFood(path, safe) ==
    /\ Len(path) > 0
    /\ path[1].p \in food_pos
    /\ \A k \in 1 .. Len(path) : path[k].p \in safe

(* the attack attempt update_path of the offensive agent id starts with *)
Attacks(id) ==
    /\ agents[id].kind = "offensive"
    /\ compute_attack_path(agents[id], agents, obstacle_count,
                           PotentialTargets(agents[id], agents)).success

(* C13: caution avoidance. When an AI agent with caution 1 plans and is not
   locking an attack path, and some path from its head to a food cell stays
   off the cells adjacent to the heads of the other living agents, the path
   update_path caches ends on a food cell and holds no cell adjacent to the
   head of another living agent. *)
C13_CautionAvoidance ==
    (/\ Replans(Deciding)
     /\ agents[Deciding].caution_radius = 1
     /\ ~Attacks(Deciding)
     /\ SafeFood(Deciding) # {})
    => SafePathToFood(Cached(Deciding), SafeCells(Deciding))

(* C13 as stated: every AI agent with caution 1, an offensive agent that
   locks an attack path included *)
C13_CautionAvoidance_Stated ==
    (/\ Replans(Deciding)
     /\ agents[Deciding].caution_radius = 1
     /\ SafeFood(Deciding) # {})
    => SafePathToFood(Cached(Deciding), SafeCells(Deciding))

(* an agent plans around a rival: the nearest food by the plain grid is not
   the end of a safe path as short, and the cached path is a safe one *)
C13_Witness ==
    /\ Replans(Deciding)
    /\ agents[Deciding].caution_radius = 1
    /\ ~Attacks(Deciding)
    /\ SafeFood(Deciding) # {}
    /\ SafePathToFood(Cached(Deciding), SafeCells(Deciding))
    /\ LET plain == compute_path_to_nearest_food(agents[Deciding], obstacle_count, food_pos)
       IN  /\ plain.idx # 0
           /\ ~SafePathToFood(plain.agent.path, SafeCells(Deciding))

(* ---- an offensive agent planning an attack on one rival ---- *)

(* straight bodies of one or two cells, head first *)
ShortBodies == {<<c>> : c \in Cells} \cup {<<c, get_neighbor(c, d)>> : c \in Cells, d \in Directions}

(* what AmbushPlan leaves: r is the outcome of compute_attack_path *)
Ambushed(r) ==
    /\ agents' = [agents EXCEPT ![2] = r.agent]
    /\ pre' = [op |-> "attack", success |-> r.success, before |-> agents[2]]

(* the world after reset(): a rival (agent 1) heading anywhere and an
   offensive agent (agent 2) watching it, both with short bodies *)
AmbushInit ==
    /\ \E rival \in ShortBodies, own \in ShortBodies, d \in Directions :
          /\ Range(rival) \cap Range(own) = {}
          /\ agents = PlaceLoop(<<1, 2>>, 1,
                                <<NewAgent("player", rival, d, 0, 0, <<>>),
                                  NewAgent("offensive", own, DOWN, 0, 0, <<1>>)>>,
                                [c \in Cells |-> 0]).agents
    /\ obstacle_count = [c \in Cells |-> Len(SelectSeq(agents[1].pos \o agents[2].pos,
                                                        LAMBDA p : p = c))]
    /\ alive_agents = <<1, 2>> /\ dead_agents = <<>>
    /\ food_pos = {}
    /\ initial_n_food = 0
    /\ initial_respawn_cooldown = 0 /\ respawn_cooldown = 0
    /\ pc = "ambush"
    /\ directions = <<>> /\ cut_lengths = <<>> /\ growing = <<>> /\ deads = <<>>
    /\ pre = [op |-> "none", success |-> FALSE, before |-> agents[2]]
    /\ ticks = 0 /\ tick_budget = 0 /\ resets = 0

(* update_path of the offensive agent calls compute_attack_path *)
AmbushPlan ==
    /\ Ambushed(compute_attack_path(agents[2], agents, obstacle_count,
                                    PotentialTargets(agents[2], agents)))
    /\ UNCHANGED <<obstacle_count, food_pos, respawn_cooldown, alive_agents, dead_agents,
                   config, pc, locals, ticks, resets>>

(* the rival takes another direction *)
AmbushTurn ==
    /\ \E d \in Directions \ {agents[1].dir} :
          agents' = [agents EXCEPT ![1].dir = d]
    /\ pre' = [op |-> "turn", success |-> FALSE, before |-> agents[2]]
    /\ UNCHANGED <<obstacle_count, food_pos, respawn_cooldown, alive_agents, dead_agents,
                   config, pc, locals, ticks, resets>>

AmbushNext == AmbushPlan \/ AmbushTurn

AmbushSpec == AmbushInit /\ [][AmbushNext]_vars

(* the head of agent o projected d steps along its direction *)
RECURSIVE Project(_, _, _)
Project(c, dir, d) == IF d = 0 THEN c ELSE Project(get_neighbor(c, dir), dir, d - 1)

ImpactCell(o, d) == Project(get_head(agents[o]), agents[o].dir, d)

(* every projected cell of agent o up to step d is free *)
Unobstructed(o, d) == \A k \in 1 .. d : obstacle_count[ImpactCell(o, k)] = 0

(* the length of the path the pathfinder returns from the head of a to c,
   0 when it does not end on c *)
PathLength(a, c) ==
    LET path == shortest_path(obstacle_count, get_head(a), c, a.heuristic_type)
    IN  IF Len(path) > 0 /\ path[1].p = c THEN Len(path) ELSE 0

(* max(d - own_length, 0) < L < d *)
StrictlyWithin(a, o, d) ==
    /\ Unobstructed(o, d)
    /\ Max(d - Len(a.pos), 0) < PathLength(a, ImpactCell(o, d))
    /\ PathLength(a, ImpactCell(o, d)) < d

(* d - own_length < L <= d *)
WithinStated(a, o, d) ==
    /\ Unobstructed(o, d)
    /\ PathLength(a, ImpactCell(o, d)) > 0
    /\ d - Len(a.pos) < PathLength(a, ImpactCell(o, d))
    /\ PathLength(a, ImpactCell(o, d)) <= d

Horizon(a) == 1 .. a.attack_anticipation

(* C14: ambush acceptance. Projecting the rival's head d steps along its
   direction (d within the horizon, every projected cell free), the path to
   the projected cell is accepted iff its length L satisfies
   max(d - own_length, 0) < L < d; compute_attack_path succeeds iff some d
   admits such a path, it then locks the rival as target with a non-empty
   cached path to a projected cell, shorter than its d; otherwise it clears
   the target and leaves the cached path alone. *)
C14_AmbushAcceptance ==
    pre.op = "attack" =>
        /\ pre.success <=> \E d \in Horizon(pre.before) : StrictlyWithin(pre.before, 1, d)
        /\ pre.success =>
              /\ agents[2].target = 1
              /\ Len(agents[2].path) > 0
              /\ \E d \in Horizon(pre.before) :
                    /\ StrictlyWithin(pre.before, 1, d)
                    /\ agents[2].path[1].p = ImpactCell(1, d)
                    /\ Len(agents[2].path) < d
        /\ ~pre.success => agents[2].target = NoAgent /\ agents[2].path = pre.before.path

(* C14 as stated: acceptance iff d - own_length < L <= d *)
C14_AmbushAcceptance_Stated ==
    pre.op = "attack" =>
        /\ pre.success <=> \E d \in Horizon(pre.before) : WithinStated(pre.before, 1, d)
        /\ pre.success =>
              /\ agents[2].target = 1
              /\ Len(agents[2].path) > 0
              /\ \E d \in Horizon(pre.before) :
                    /\ WithinStated(pre.before, 1, d)
                    /\ agents[2].path[1].p = ImpactCell(1, d)
                    /\ Len(agents[2].path) <= d

(* an attack is locked on the cell two steps ahead of the rival, one step
   from the ambusher *)
C14_Witness ==
    /\ pre.op = "attack"
    /\ pre.success
    /\ agents[2].target = 1
    /\ Len(agents[2].path) = 1
    /\ agents[2].path[1].p = ImpactCell(1, 2)

(* ---- respawn ---- *)

AliveSet == {alive_agents[i] : i \in 1 .. Len(alive_agents)}

(* a step of simulate() that brings an agent back among the living *)
Respawned == resets' = resets /\ AliveSet' \ AliveSet # {}

(* C15: successful respawn. A respawn happens in the respawn phase only
   (once per tick); it moves the oldest agent of the dead queue, and no
   other, to the end of alive_agents, marks it alive, gives it a body of its
   initial length on one free cell whose counter grows by that length, and
   sets respawn_cooldown to the configured interval. *)
C15_SuccessfulRespawn ==
    [][Respawned =>
          /\ pc = "respawn" /\ pc' = "idle"
          /\ dead_agents # <<>>
          /\ dead_agents' = Tail(dead_agents)
          /\ alive_agents' = Append(alive_agents, Head(dead_agents))
          /\ agents'[Head(dead_agents)].alive
          /\ \A o \in DOMAIN agents \ {Head(dead_agents)} : agents'[o] = agents[o]
          /\ \E c \in Cells :
                /\ obstacle_count[c] = 0
                /\ agents'[Head(dead_agents)].pos
                   = [k \in 1 .. Len(agents[Head(dead_agents)].initial_pos) |-> c]
                /\ obstacle_count' = [obstacle_count EXCEPT
                                         ![c] = Len(agents[Head(dead_agents)].initial_pos)]
          /\ respawn_cooldown' = initial_respawn_cooldown
          /\ food_pos' = food_pos]_vars

(* a tick has ended with the older of two dead agents back, its body on one
   cell, and the younger still waiting *)
C15_Witness ==
    /\ pc = "idle"
    /\ ticks > 0
    /\ Len(dead_agents) = 1
    /\ Len(alive_agents) = Len(pre.alive) - Len(deads) + 1
    /\ Len(deads) = 1
    /\ dead_agents = deads
    /\ LET a == agents[Last(alive_agents)]
       IN  /\ a.alive
           /\ \A k \in 1 .. Len(a.pos) : a.pos[k] = a.pos[1]
           /\ obstacle_count[a.pos[1]] = Len(a.initial_pos)
    /\ respawn_cooldown = initial_respawn_cooldown

(* the respawn phase starts with a dead agent waiting and no cooldown left,
   and ends with no agent brought back *)
SpawnFailed ==
    /\ pc = "respawn"
    /\ dead_agents # <<>>
    /\ respawn_cooldown = 0
    /\ ~Respawned

(* a step of the game other than the respawn phase and reset() *)
OutsideRespawn == pc # "respawn" /\ resets' = resets

(* C16: soft spawn failure. When the respawn phase attempts a placement and
   finds no cell, it changes nothing: dead_agents, alive_agents, the agents,
   the grid and respawn_cooldown (still zero) are as before and the tick
   ends normally. No other phase touches respawn_cooldown or removes a dead
   agent, so the next respawn phase attempts again with no wait. *)
C16_SoftSpawnFailure ==
    [][/\ SpawnFailed =>
             /\ UNCHANGED <<dead_agents, alive_agents, agents, obstacle_count, food_pos>>
             /\ respawn_cooldown' = 0
             /\ pc' = "idle"
       /\ OutsideRespawn =>
             /\ respawn_cooldown' = respawn_cooldown
             /\ Len(dead_agents') >= Len(dead_agents)
             /\ SubSeq(dead_agents', 1, Len(dead_agents)) = dead_agents]_vars

(* a tick has ended on a failed placement: a dead agent is waiting, the
   cooldown is zero and nobody came back during the tick *)
C16_Witness ==
    /\ pc = "idle"
    /\ ticks > 1
    /\ initial_respawn_cooldown = 0
    /\ respawn_cooldown = 0
    /\ dead_agents # <<>>
    /\ deads = <<>>
    /\ alive_agents = pre.alive

(* C17: respawn cooldown countdown. In the respawn phase of every tick that
   has a dead agent waiting and a positive finite respawn_cooldown, the
   cooldown is decremented by exactly one and nobody is respawned; with no
   dead agent waiting, or with no respawn configured, the phase leaves the
   cooldown as it is; an agent is respawned only in a respawn phase that
   starts with respawn_cooldown zero and a non-empty dead queue. *)
C17_CooldownCountdown ==
    [][pc = "respawn" =>
          /\ (dead_agents # <<>> /\ respawn_cooldown > 0) =>
                /\ respawn_cooldown' = respawn_cooldown - 1
                /\ UNCHANGED <<dead_agents, alive_agents, agents, obstacle_count>>
          /\ (dead_agents = <<>> \/ respawn_cooldown = Infinity) =>
                UNCHANGED <<respawn_cooldown, dead_agents, alive_agents, agents,
                            obstacle_count>>
          /\ Respawned => respawn_cooldown = 0 /\ dead_agents # <<>>]_vars

(* C17 as stated: decremented in every tick in which it is positive *)
C17_CooldownCountdown_Stated ==
    [][pc = "respawn" =>
          /\ respawn_cooldown > 0 => respawn_cooldown' = respawn_cooldown - 1
          /\ Respawned => respawn_cooldown = 0 /\ dead_agents # <<>>]_vars

(* a tick in which an agent died has ended with the cooldown one below the
   configured interval and the agent still dead *)
C17_Witness ==
    /\ pc = "idle"
    /\ ticks > 0
    /\ deads # <<>>
    /\ dead_agents = deads
    /\ initial_respawn_cooldown > 0
    /\ respawn_cooldown = initial_respawn_cooldown - 1

(* respawn_cooldown lies between 0 and the configured interval; with no
   respawn configured both are infinite *)
WithinInterval ==
    IF initial_respawn_cooldown = Infinity
    THEN respawn_cooldown = Infinity
    ELSE 0 <= respawn_cooldown /\ respawn_cooldown <= initial_respawn_cooldown

(* C18: cooldown bounds. respawn_cooldown always lies between 0 and the
   configured interval; from zero, a step of simulate() leaves it at zero
   unless it respawns an agent, and then it equals the interval; with no
   respawn configured, no step of simulate() brings an agent back. *)
C18_CooldownBounds ==
    /\ []WithinInterval
    /\ [][/\ (respawn_cooldown = 0 /\ resets' = resets) =>
                respawn_cooldown' = IF Respawned THEN initial_respawn_cooldown ELSE 0
          /\ initial_respawn_cooldown = Infinity => ~Respawned]_vars

(* with a positive interval, a tick has ended on a respawn and the cooldown
   is back to the interval *)
C18_Witness ==
    /\ pc = "idle"
    /\ ticks > 1
    /\ initial_respawn_cooldown > 0
    /\ respawn_cooldown = initial_respawn_cooldown
    /\ Len(alive_agents) = Len(pre.alive) - Len(deads) + 1

(* with no respawn configured, an agent that died in an earlier tick is
   still dead at the end of the game *)
NeverRespawned ==
    /\ pc = "idle"
    /\ initial_respawn_cooldown = Infinity
    /\ ticks = tick_budget
    /\ deads = <<>>
    /\ dead_agents # <<>>

(* ---- reset ---- *)

(* the number of cells the initial bodies have on cell c *)
InitialCount(c) ==
    SeqSum([id \in 1 .. Len(agents) |->
               Cardinality({k \in 1 .. Len(agents[id].initial_pos) :
                               agents[id].initial_pos[k] = c})])

(* what reset() promises of the agents ags, the queues alive and dead, the
   cooldown cd and the grid *)
FreshGame(ags, alive, dead, cd, grid) ==
    /\ Len(alive) = Len(agents)
    /\ {alive[i] : i \in 1 .. Len(alive)} = DOMAIN agents
    /\ dead = <<>>
    /\ cd = initial_respawn_cooldown
    /\ grid = [c \in Cells |-> InitialCount(c)]
    /\ \A id \in DOMAIN agents :
          /\ ags[id].alive
          /\ ags[id].pos = Reverse(agents[id].initial_pos)
          /\ Range(ags[id].pos) = Range(agents[id].initial_pos)
          /\ ags[id].dir = agents[id].initial_dir
          /\ ags[id].dir_requests = <<>>
          /\ ags[id].path = <<>>
          /\ ags[id].cooldown = 0
          /\ ags[id].target = NoAgent

(* reset() called at this tick boundary would leave a fresh game *)
ResetLeavesFreshGame ==
    pc = "idle" =>
        LET placed == PlaceLoop(alive_agents \o dead_agents, 1, agents, [c \in Cells |-> 0])
        IN  FreshGame(placed.agents, alive_agents \o dead_agents, <<>>,
                      initial_respawn_cooldown, placed.grid)

(* C19: reset() postcondition. After reset(), from any tick boundary, every
   registered agent is in alive_agents, alive, with its initial body and
   direction; dead_agents is empty; respawn_cooldown is the configured
   interval; obstacle_count is the per-cell count of the initial bodies;
   every request queue is empty; every AI agent has an empty cached path,
   re-planning cooldown 0 and no target. *)
C19_ResetPostcondition ==
    /\ []ResetLeavesFreshGame
    /\ [][resets' # resets =>
             FreshGame(agents', alive_agents', dead_agents', respawn_cooldown',
                       obstacle_count')]_vars

(* the game has just been reset after a tick played by every agent *)
C19_Witness ==
    /\ pc = "idle"
    /\ resets = 2
    /\ pre.agents = agents
    /\ pre.grid = obstacle_count
    /\ \A id \in DOMAIN agents :
          /\ agents[id].last_tail_pos # NoPos
          /\ agents[id].pos = Reverse(agents[id].initial_pos)
    /\ dead_agents = <<>>
    /\ respawn_cooldown = initial_respawn_cooldown

(* a tick has ended with a dead agent, a pending request and a cached path,
   all of which reset() has to clear *)
ResetHasWork ==
    /\ pc = "idle"
    /\ ticks = 1
    /\ resets < MaxResets
    /\ dead_agents # <<>>
    /\ \E id \in DOMAIN agents : agents[id].dir_requests # <<>>
    /\ \E id \in DOMAIN agents : agents[id].path # <<>>

(* C20: food set invariant. At every tick boundary food_pos holds at most
   the configured number of positions, each with obstacle counter 0. *)
C20_FoodSetInvariant ==
    AtTickBoundary =>
        /\ Cardinality(food_pos) <= initial_n_food
        /\ \A f \in food_pos : obstacle_count[f] = 0

(* ---- the obstacle counters ---- *)

(* every decrement of the counters of cells, made in this order from grid,
   finds a counter above 0 *)
RECURSIVE DecrSafe(_, _)
DecrSafe(grid, cells) ==
    \/ Len(cells) = 0
    \/ /\ get_obstacle_count(grid, Head(cells)) > 0
       /\ DecrSafe(incr_obstacle_count(grid, Head(cells), -1), Tail(cells))

(* the decrement of move(d): the tail cell, after the new head is counted *)
MoveSafe(a, grid, d) ==
    get_obstacle_count(incr_obstacle_count(grid, get_neighbor(Last(a.pos), d), 1),
                       Head(a.pos)) > 0

(* the decrements of the move loop from its i-th agent on *)
RECURSIVE MovesSafe(_, _, _, _, _)
MovesSafe(alive, dirs, i, ags, grid) ==
    \/ i > Len(alive)
    \/ /\ MoveSafe(ags[alive[i]], grid, dirs[i])
       /\ MovesSafe(alive, dirs, i + 1, ags, move(ags[alive[i]], grid, dirs[i]).grid)

(* the decrements of the cut loop from its i-th agent on *)
RECURSIVE CutsSafe(_, _, _, _, _)
CutsSafe(alive, cuts, i, ags, grid) ==
    \/ i > Len(alive)
    \/ /\ cuts[i] <= Len(ags[alive[i]].pos)
       /\ DecrSafe(grid, SubSeq(ags[alive[i]].pos, 1, cuts[i]))
       /\ CutsSafe(alive, cuts, i + 1, ags, cut(ags[alive[i]], grid, cuts[i]).grid)

(* the decrements of die() in the collision loop from its i-th agent on *)
RECURSIVE DeathsSafe(_, _, _, _)
DeathsSafe(alive, i, ags, grid) ==
    \/ i > Len(alive)
    \/ IF collides_another(alive[i], ags, alive, grid)
       THEN /\ DecrSafe(grid, ags[alive[i]].pos)
            /\ DeathsSafe(alive, i + 1, ags, die(ags[alive[i]], grid).grid)
       ELSE DeathsSafe(alive, i + 1, ags, grid)

(* the positions of the layers in the order stop_avoid visits them *)
RECURSIVE Flatten(_)
Flatten(layers) == IF Len(layers) = 0 THEN <<>> ELSE Head(layers) \o Flatten(Tail(layers))

(* the decrements of stop_avoid in the update_path of agent id *)
AvoidSafe(id, danger) == DecrSafe(danger.grid, Flatten(danger.layers))

(* each counter is the number of body cells the living snakes have there *)
CountersMatchBodies ==
    \A c \in Cells : obstacle_count[c] = BodyCount(c, alive_agents, agents)

(* C21: counter non-negativity. In every state reached by reset(),
   add_dir_request() and simulate() once the game has been reset, each
   counter is the number of body cells on its cell, and every decrement the
   next phase makes (stop_avoid of the deciding agent, move, cut, die) finds
   a counter above 0: no counter wraps around. *)
C21_CounterNonNegative ==
    /\ resets > 0 => CountersMatchBodies
    /\ (Replans(Deciding) /\ ~Attacks(Deciding)) =>
          AvoidSafe(Deciding,
                    start_avoid(obstacle_count, <<>>,
                                OtherHeads(Deciding, agents, alive_agents),
                                agents[Deciding].caution_radius))
    /\ (pc = "decide" /\ Len(directions) = Len(alive_agents)) =>
          MovesSafe(alive_agents, directions, 1, agents, obstacle_count)
    /\ pc = "self_collision" =>
          CutsSafe(alive_agents, CutLengths(alive_agents, agents, obstacle_count), 1,
                   agents, obstacle_count)
    /\ pc = "collision" => DeathsSafe(alive_agents, 1, agents, obstacle_count)

(* the collision loop is about to kill a snake respawned with all its cells
   on one cell, whose counter die() decrements several times *)
C21_Witness ==
    /\ pc = "collision"
    /\ \E i \in 1 .. Len(alive_agents) :
          /\ alive_agents[i] \in Range(CollisionLoop(alive_agents, 1, agents,
                                                     obstacle_count, <<>>).deads)
          /\ \E k \in 2 .. Len(agents[alive_agents[i]].pos) :
                agents[alive_agents[i]].pos[k] = agents[alive_agents[i]].pos[1]
    /\ DeathsSafe(alive_agents, 1, agents, obstacle_count)

(* ---- the planning call of decide_direction ---- *)

(* the grid once start_avoid of agent id has marked its danger layers *)
DangerGrid(id) ==
    start_avoid(obstacle_count, <<>>, OtherHeads(id, agents, alive_agents),
                agents[id].caution_radius).grid

(* compute_path_to_nearest_food of agent id succeeds behind the danger layers *)
FoundWithCaution(id) ==
    compute_path_to_nearest_food(agents[id], DangerGrid(id), food_pos).idx # 0

(* compute_path_to_nearest_food of agent id succeeds on the plain grid *)
FoundWithoutCaution(id) ==
    compute_path_to_nearest_food(agents[id], obstacle_count, food_pos).idx # 0

(* update_path of agent id installs a path *)
PlanFound(id) == Attacks(id) \/ FoundWithCaution(id) \/ FoundWithoutCaution(id)

(* C22: no plan this tick. When the planning call of the deciding agent
   finds no valid path, the agent keeps its direction for this tick and
   plans again on the next tick (its cooldown is 0 or its path is empty). *)
C22_NoPlanThisTick ==
    [][(Replans(Deciding) /\ ~PlanFound(Deciding)) =>
          /\ agents'[Deciding].dir = agents[Deciding].dir
          /\ agents'[Deciding].cooldown = 0 \/ agents'[Deciding].path = <<>>]_vars

(* every AI agent has its cooldown within 0 .. latency *)
CooldownWithinLatency ==
    \A id \in DOMAIN agents :
        agents[id].kind # "player" =>
            agents[id].cooldown >= 0 /\ agents[id].cooldown <= agents[id].latency

(* the step is decide_direction of an AI agent *)
AiDecides ==
    /\ Deciding # NoAgent
    /\ agents[Deciding].kind # "player"
    /\ directions' # directions

(* one step of path, when there is one, is popped as the new direction *)
Consumes(id, path) ==
    IF Len(path) > 0
    THEN /\ agents'[id].dir = Last(path).d
         /\ agents'[id].path = SubSeq(path, 1, Len(path) - 1)
    ELSE /\ agents'[id].dir = agents[id].dir
         /\ agents'[id].path = <<>>

(* C26: the re-planning state machine. decide_direction of an AI agent plans
   exactly when its cooldown is 0 or its cached path is empty, and then sets
   the cooldown to latency; otherwise it decrements the cooldown by one. The
   cooldown stays within 0 .. latency, so an agent whose path never runs out
   plans every latency + 1 ticks; and when the cached path is not empty after
   that step, exactly one step of it is popped as the new direction. *)
C26_ReplanningStateMachine ==
    /\ []CooldownWithinLatency
    /\ [][AiDecides =>
             IF Replans(Deciding)
             THEN /\ agents'[Deciding].cooldown = agents[Deciding].latency
                  /\ Consumes(Deciding, Cached(Deciding))
             ELSE /\ agents'[Deciding].cooldown = agents[Deciding].cooldown - 1
                  /\ Consumes(Deciding, agents[Deciding].path)]_vars

(* an AI agent of latency 1 has decided in this tick without planning: its
   cooldown was 1 and is 0, and it popped a step of the path of the tick
   before *)
C26_Witness ==
    /\ pc = "decide"
    /\ \E i \in 1 .. Len(directions) :
          /\ agents[alive_agents[i]].kind # "player"
          /\ pre.agents[alive_agents[i]].cooldown = 1
          /\ pre.agents[alive_agents[i]].path # <<>>
          /\ agents[alive_agents[i]].cooldown = 0
          /\ agents[alive_agents[i]].dir = Last(pre.agents[alive_agents[i]].path).d

(* ---- the order of the deaths ---- *)

(* the agents the collision loop of this tick kills, in the order of alive_agents *)
DyingNow == CollisionLoop(alive_agents, 1, agents, obstacle_count, <<>>).deads

(* the position of agent id in the sequence s *)
PositionIn(s, id) == CHOOSE i \in 1 .. Len(s) : s[i] = id

(* C32: randomized death order. The agents that die in one tick enter
   dead_agents after the agents already there, and every ordering of them is
   a possible outcome of the collision phase: their order is not fixed by
   their index in alive_agents. *)
C32_RandomizedDeathOrder ==
    pc = "collision" =>
        \A order \in Rearrangements(DyingNow) :
            ENABLED (Collision /\ deads' = order /\ dead_agents' = dead_agents \o order)

(* two agents died in one tick and entered the dead queue in the order
   opposite to the one they had in alive_agents *)
C32_Witness ==
    /\ pc = "spawn_food"
    /\ Len(deads) = 2
    /\ PositionIn(pre.alive, deads[1]) > PositionIn(pre.alive, deads[2])
    /\ Len(dead_agents) >= 2
    /\ SubSeq(dead_agents, Len(dead_agents) - 1, Len(dead_agents)) = deads

(* ---- the agents between two ticks ---- *)

(* the number of times id is listed in s *)
Listed(s, id) == Cardinality({k \in 1 .. Len(s) : s[k] = id})

(* simulate() has returned, and neither reset() nor simulate() was called since *)
AfterSimulate == pc = "idle" /\ directions # <<>>

(* C35: alive/dead partition. Between two calls (after attach_agent, after
   reset() and after each simulate()) every registered agent is listed once
   in alive_agents or once in dead_agents, never in both, and its alive flag
   is set exactly when it is in alive_agents. *)
C35_AliveDeadPartition ==
    pc = "idle" =>
        \A id \in DOMAIN agents :
            /\ Listed(alive_agents, id) + Listed(dead_agents, id) = 1
            /\ agents[id].alive <=> Listed(alive_agents, id) = 1

(* a tick has ended with an agent waiting in dead_agents and another that
   was respawned behind the agents that stayed alive *)
C35_Witness ==
    /\ AfterSimulate
    /\ dead_agents # <<>>
    /\ alive_agents # <<>>
    /\ Listed(pre.alive, Last(alive_agents)) = 1
    /\ Listed(deads, Last(alive_agents)) = 1

(* the cells of the body of agent id *)
Body(id) == Range(agents[id].pos)

(* C36: no overlapping survivors. After every simulate() the head of an
   alive agent is on no cell of the body of another alive agent. *)
C36_NoOverlappingSurvivors ==
    AfterSimulate =>
        \A a, b \in AliveSet : a # b => Last(agents[a].pos) \notin Body(b)

(* a tick has ended with the head of a survivor on a cell of the body of an
   agent that died in this tick and still waits in dead_agents *)
C36_Witness ==
    /\ AfterSimulate
    /\ \E a \in AliveSet, d \in Range(dead_agents) :
          /\ Listed(deads, d) = 1
          /\ Last(agents[a].pos) \in Body(d)

(* ---- the list simulate() returns ---- *)

(* the returned agent d waits in dead_agents, its alive flag cleared *)
StillDead(d) ==
    /\ Listed(dead_agents, d) = 1 /\ Listed(alive_agents, d) = 0
    /\ ~agents[d].alive

(* the returned agent d was respawned by the call that returns it: it is the
   last of alive_agents, alive, with its initial length on one free cell *)
RespawnedAtOnce(d) ==
    /\ Listed(alive_agents, d) = 1 /\ Listed(dead_agents, d) = 0
    /\ d = Last(alive_agents)
    /\ agents[d].alive
    /\ Len(agents[d].pos) = Len(agents[d].initial_pos)
    /\ Cardinality(Body(d)) = 1

(* a step of the tick from the collision phase on, in which an agent of the
   returned list changes its body *)
BodyChanges(d) ==
    /\ pc \in {"collision", "spawn_food", "respawn"}
    /\ d \in Range(deads')
    /\ agents'[d].pos # agents[d].pos

(* C37: returned deaths are dead. An agent of the list simulate() returns
   either waits in dead_agents with its alive flag cleared and the body it
   had when it died, or was respawned by the same call; no counter of the
   grid counts a cell of a dead agent. *)
C37_ReturnedDeathsAreDead ==
    /\ [](AfterSimulate =>
            /\ \A d \in Range(deads) : StillDead(d) \/ RespawnedAtOnce(d)
            /\ CountersMatchBodies)
    /\ [][\A d \in DOMAIN agents : BodyChanges(d) => RespawnedAtOnce(d)']_vars

(* C37 as stated: every agent of the returned list waits in dead_agents with
   its alive flag cleared and the body it had when it died, no cell of which
   is counted on the grid. *)
C37_ReturnedDeathsAreDead_Stated ==
    /\ [](AfterSimulate =>
            /\ \A d \in Range(deads) : StillDead(d)
            /\ CountersMatchBodies)
    /\ [][\A d \in DOMAIN agents : ~BodyChanges(d)]_vars

(* simulate() has returned two agents: one waits in dead_agents with its
   body of two cells, one of them free on the grid, the other was respawned *)
C37_Witness ==
    /\ AfterSimulate
    /\ \E d, e \in Range(deads) :
          /\ StillDead(d)
          /\ Cardinality(Body(d)) >= 2
          /\ \E c \in Body(d) : obstacle_count[c] = 0
          /\ RespawnedAtOnce(e)

(* ---- a head on the cell a tail has just left ---- *)

(* the cell the tail of agent b left in the move of the running tick *)
Vacated(b) == pre.agents[b].pos[1]

Ate(b) == Listed(growing, b) = 1

(* the body of agent b before the growth phase gave it back its tail cell *)
Ungrown(b) == IF Ate(b) THEN Tail(agents[b].pos) ELSE agents[b].pos

(* in the running tick the head of agent a has moved onto the cell the tail
   of another agent b has left, no other cell of b staying on it *)
Chases(a, b) ==
    /\ a # b
    /\ Listed(alive_agents, a) = 1 /\ Listed(alive_agents, b) = 1
    /\ Listed(pre.alive, a) = 1 /\ Listed(pre.alive, b) = 1
    /\ Last(agents[a].pos) = Vacated(b)
    /\ Vacated(b) \notin Range(Ungrown(b))

(* C38: tail-chasing follows the phase order. The collision phase kills an
   agent whose head is on the cell another agent's tail left in the tick if
   that agent ate (its regrown tail cell is a body cell), and lets it live if
   that agent did not eat. *)
C38_TailChasing ==
    [][pc = "collision" =>
          \A a, b \in DOMAIN agents :
              Chases(a, b) => (Ate(b) <=> Listed(deads', a) = 1)]_vars

(* ---- ticks without end: deaths and respawns ---- *)

(* agent.die() for every agent of dying, in that order *)
RECURSIVE KillLoop(_, _, _, _)
KillLoop(dying, i, ags, grid) ==
    IF i > Len(dying) THEN [agents |-> ags, grid |-> grid]
    ELSE KillLoop(dying, i + 1, [ags EXCEPT ![dying[i]] = die(@, grid).agent],
                  die(ags[dying[i]], grid).grid)

(* the first two snakes of the first game, and their ids *)
LiveAgents == SubSeq(Game1.agents, 1, 2)
LiveIds == 1 .. 2

(* a game of two snakes just reset, without food, with a respawn cooldown
   of 0, of RespawnCooldown ticks, or without end *)
LiveInit ==
    /\ agents = LiveAgents
    /\ alive_agents \in Orderings(LiveIds)
    /\ dead_agents = <<>>
    /\ obstacle_count = [c \in Cells |-> BodyCount(c, alive_agents, agents)]
    /\ food_pos = {}
    /\ initial_n_food = 0
    /\ initial_respawn_cooldown \in {0, RespawnCooldown, Infinity}
    /\ respawn_cooldown = initial_respawn_cooldown
    /\ pc = "idle"
    /\ directions = <<>> /\ cut_lengths = <<>> /\ growing = <<>> /\ deads = <<>>
    /\ pre = [agents |-> agents, grid |-> obstacle_count, food |-> {},
              alive |-> alive_agents]
    /\ ticks = 0 /\ tick_budget = 0 /\ resets = 1

(* the agents r has killed are drawn in the order shuffle leaves and moved
   to dead_agents *)
LiveKilled(dying, r) ==
    /\ agents' = r.agents
    /\ obstacle_count' = r.grid
    /\ deads' \in Rearrangements(dying)
    /\ alive_agents' = RemoveAll(alive_agents, Range(dying))
    /\ dead_agents' = dead_agents \o deads'

(* a tick up to its respawn phase: the snakes stay where they are, and the
   collision phase kills any of the alive agents, which of them collide being
   left open *)
LiveKill ==
    /\ pc = "idle"
    /\ pc' = "respawn"
    /\ \E dying \in SUBSET Range(alive_agents) :
          LiveKilled(RemoveAll(alive_agents, Range(alive_agents) \ dying),
                     KillLoop(RemoveAll(alive_agents, Range(alive_agents) \ dying), 1,
                              agents, obstacle_count))
    /\ UNCHANGED <<food_pos, respawn_cooldown, config,
                   directions, cut_lengths, growing, pre, ticks, resets>>

LiveNext == LiveKill \/ Respawn

(* the respawn phase places an agent *)
Placement == Respawn /\ Len(alive_agents') > Len(alive_agents)

(* the timer of the front end keeps calling simulate(), and a placement that
   is attempted again and again succeeds again and again *)
LiveSpec ==
    /\ LiveInit /\ [][LiveNext]_vars
    /\ WF_vars(LiveKill) /\ WF_vars(Respawn)
    /\ SF_vars(Placement)

(* C39: every dead agent comes back. With a finite respawn cooldown and a
   spawn placement that succeeds infinitely often when it keeps being
   attempted, every agent in dead_agents is eventually back in alive_agents,
   and the agent a respawn brings back is the one that entered dead_agents
   first. *)
C39_EveryDeadAgentComesBack ==
    /\ \A id \in LiveIds :
          (Listed(dead_agents, id) = 1 /\ initial_respawn_cooldown # Infinity)
              ~> (Listed(alive_agents, id) = 1)
    /\ [][Placement => /\ dead_agents # <<>>
                       /\ alive_agents' = Append(alive_agents, Head(dead_agents))
                       /\ dead_agents' = Tail(dead_agents)]_vars

(* after a cooldown both agents, dead at the same time, are back in
   alive_agents, each with its cells on its spawn cell *)
C39_Witness ==
    /\ pc = "idle"
    /\ initial_respawn_cooldown = RespawnCooldown
    /\ dead_agents = <<>>
    /\ Len(alive_agents) = 2
    /\ \A id \in LiveIds : Cardinality(Body(id)) = 1
    /\ Body(1) # Body(2)

(* ---- the spawn placer (voronoi.py) ---- *)

(* Coordinates are doubled, so that the half-way seeds of the arena border
   are integers. A point of the plane with rational coordinates is written
   <<x, y, w>> for (x / w, y / w), w > 0; NoVertex stands for None. *)
NoVertex == <<0, 0, 0>>

Doubled(c) == <<2 * c[1], 2 * c[2]>>

(* (half_x, 0.), (half_x, max_y), (0., half_y), (max_x, half_y) *)
BorderSeeds ==
    <<<<Width - 1, 0>>, <<Width - 1, 2 * (Height - 1)>>,
      <<0, Height - 1>>, <<2 * (Width - 1), Height - 1>>>>

Sq(p) == p[1] * p[1] + p[2] * p[2]

(* twice the signed area of the triangle a b c, doubled *)
Det(a, b, c) ==
    2 * (a[1] * (b[2] - c[2]) + b[1] * (c[2] - a[2]) + c[1] * (a[2] - b[2]))

(* the centre of the circle through a, b and c, which are not aligned *)
Circumcenter(a, b, c) ==
    LET x == Sq(a) * (b[2] - c[2]) + Sq(b) * (c[2] - a[2]) + Sq(c) * (a[2] - b[2])
        y == Sq(a) * (c[1] - b[1]) + Sq(b) * (a[1] - c[1]) + Sq(c) * (b[1] - a[1])
    IN  IF Det(a, b, c) > 0 THEN <<x, y, Det(a, b, c)>>
        ELSE <<0 - x, 0 - y, 0 - Det(a, b, c)>>

(* the squared distance from the point v to the seed p, times v[3] squared *)
Dist2(v, p) ==
    (p[1] * v[3] - v[1]) * (p[1] * v[3] - v[1]) + (p[2] * v[3] - v[2]) * (p[2] * v[3] - v[2])

(* Voronoi(points).vertices: the centres of the circles through three seeds
   that hold no seed inside *)
VoronoiVertices(points) ==
    {Circumcenter(points[t[1]], points[t[2]], points[t[3]]) :
        t \in {u \in (DOMAIN points) \X (DOMAIN points) \X (DOMAIN points) :
                  /\ u[1] < u[2] /\ u[2] < u[3]
                  /\ Det(points[u[1]], points[u[2]], points[u[3]]) # 0
                  /\ \A s \in DOMAIN points :
                        Dist2(Circumcenter(points[u[1]], points[u[2]], points[u[3]]),
                              points[s])
                        >= Dist2(Circumcenter(points[u[1]], points[u[2]], points[u[3]]),
                                 points[u[1]])}}

(* vor.regions[vor.point_region[point_idx]]: the vertices of the cell of a
   seed, among the vertices of the diagram *)
Region(points, vertices, point_idx) ==
    {v \in vertices :
        \A s \in DOMAIN points : Dist2(v, points[point_idx]) <= Dist2(v, points[s])}

(* for point_idx, region_idx in enumerate(vor.point_region):
       vertex_nearest_point[vor.regions[region_idx]] = point_idx
   the last seed written for the vertex v stays *)
vertex_nearest_point(points, vertices, v) ==
    CHOOSE i \in DOMAIN points :
        /\ v \in Region(points, vertices, i)
        /\ \A j \in DOMAIN points : v \in Region(points, vertices, j) => j <= i

vertex_squared_radius(points, vertices, v) ==
    Dist2(v, points[vertex_nearest_point(points, vertices, v)])

(* candidate_mask *)
InArena(v) ==
    /\ v[1] >= 0 /\ v[1] < 2 * Width * v[3]
    /\ v[2] >= 0 /\ v[2] < 2 * Height * v[3]

(* radius(v) >= radius(w), each being a squared distance times v[3], w[3] squared *)
NotCloser(rv, v, rw, w) == rv * w[3] * w[3] >= rw * v[3] * v[3]

(* the choice that takes the candidate nearest to its seed *)
furthest_voronoi_vertex_Nearest(points, vertices) ==
    IF {v \in vertices : InArena(v)} = {} THEN {NoVertex}
    ELSE {v \in {c \in vertices : InArena(c)} :
             \A w \in {c \in vertices : InArena(c)} :
                 NotCloser(vertex_squared_radius(points, vertices, w), w,
                           vertex_squared_radius(points, vertices, v), v)}

(* the values furthest_voronoi_vertex may return once Voronoi(points) has
   given vertices: None when no vertex is in the arena, else a candidate of
   greatest radius (np.argmax takes the first of them in the order of Qhull) *)
furthest_voronoi_vertex(points, vertices) ==
    IF {v \in vertices : InArena(v)} = {} THEN {NoVertex}
    ELSE {v \in {c \in vertices : InArena(c)} :
             \A w \in {c \in vertices : InArena(c)} :
                 NotCloser(vertex_squared_radius(points, vertices, v), v,
                           vertex_squared_radius(points, vertices, w), w)}

(* the seed sets _find_agent_spawn_pos builds: up to MaxSeeds body cells,
   and the four border seeds when at most two snakes live *)
MaxSeeds == 5

SeedSets ==
    {SetToSeq(S) : S \in {T \in SUBSET Cells : Cardinality(T) <= MaxSeeds}}

VoronoiInit ==
    /\ \E cells \in SeedSets, border \in BOOLEAN :
          pre = [op |-> "seeds",
                 points |-> [i \in 1 .. Len(cells) |-> Doubled(cells[i])]
                            \o (IF border THEN BorderSeeds ELSE <<>>),
                 vertices |-> {},
                 vertex |-> NoVertex,
                 spawn_pos |-> NoPos]
          /\ obstacle_count = [c \in Cells |-> IF c \in Range(cells) THEN 1 ELSE 0]
    /\ agents = <<>>
    /\ alive_agents = <<>> /\ dead_agents = <<>>
    /\ food_pos = {}
    /\ initial_n_food = 0
    /\ initial_respawn_cooldown = 0 /\ respawn_cooldown = 0
    /\ pc = "voronoi"
    /\ directions = <<>> /\ cut_lengths = <<>> /\ growing = <<>> /\ deads = <<>>
    /\ ticks = 0 /\ tick_budget = 0 /\ resets = 0

(* vor = Voronoi(points); with no seed, or when Qhull fails on aligned
   seeds, the function returns None *)
VoronoiDiagram ==
    /\ pre.op = "seeds"
    /\ pre' = [pre EXCEPT !.vertices = VoronoiVertices(pre.points),
                          !.op = IF VoronoiVertices(pre.points) = {}
                                 THEN "placed" ELSE "diagram"]
    /\ UNCHANGED <<obstacle_count, food_pos, respawn_cooldown, alive_agents, dead_agents,
                   config, agents, pc, locals, ticks, resets>>

(* the rest of furthest_voronoi_vertex: radii, mask and argmax *)
VoronoiPlace ==
    /\ pre.op = "diagram"
    /\ \E vertex \in furthest_voronoi_vertex(pre.points, pre.vertices) :
          pre' = [pre EXCEPT !.op = "placed", !.vertex = vertex]
    /\ UNCHANGED <<obstacle_count, food_pos, respawn_cooldown, alive_agents, dead_agents,
                   config, agents, pc, locals, ticks, resets>>

(* spawn_pos = (int(x), int(y)) of a vertex of the arena, in doubled
   coordinates *)
spawn_cell(v) == <<v[1] \div (2 * v[3]), v[2] \div (2 * v[3])>>

(* the end of _find_agent_spawn_pos that returns the cell whatever stands on it *)
find_agent_spawn_pos_Unchecked(grid, vertex) ==
    IF vertex = NoVertex THEN NoPos ELSE spawn_cell(vertex)

(* the end of _find_agent_spawn_pos: the cell of the vertex when it is free,
   None otherwise *)
find_agent_spawn_pos(grid, vertex) ==
    IF vertex = NoVertex THEN NoPos
    ELSE IF grid[spawn_cell(vertex)] = 0 THEN spawn_cell(vertex)
    ELSE NoPos

VoronoiSpawn ==
    /\ pre.op = "placed"
    /\ pre' = [pre EXCEPT !.op = "spawned",
                          !.spawn_pos = find_agent_spawn_pos(obstacle_count, pre.vertex)]
    /\ UNCHANGED <<obstacle_count, food_pos, respawn_cooldown, alive_agents, dead_agents,
                   config, agents, pc, locals, ticks, resets>>

VoronoiNext == VoronoiDiagram \/ VoronoiPlace \/ VoronoiSpawn

VoronoiSpec == VoronoiInit /\ [][VoronoiNext]_vars

(* the squared distance from v to its nearest seed, times v[3] squared *)
NearestSeedDist2(points, v) ==
    CHOOSE m \in {Dist2(v, points[i]) : i \in DOMAIN points} :
        \A i \in DOMAIN points : m <= Dist2(v, points[i])

(* C23: respawn optimality. The position furthest_voronoi_vertex returns is
   a Voronoi vertex inside the arena, and its squared distance to its
   nearest seed is at least that of every Voronoi vertex inside the arena. *)
C23_RespawnOptimality ==
    (pre.op = "placed" /\ pre.vertex # NoVertex) =>
        /\ pre.vertex \in pre.vertices
        /\ InArena(pre.vertex)
        /\ \A w \in pre.vertices :
              InArena(w) =>
                 NotCloser(NearestSeedDist2(pre.points, pre.vertex), pre.vertex,
                           NearestSeedDist2(pre.points, w), w)

(* a vertex is returned while another vertex of the arena is nearer to its
   seeds and a vertex outside the arena is further from its seeds *)
C23_Witness ==
    /\ pre.op = "placed"
    /\ pre.vertex # NoVertex
    /\ \E w \in pre.vertices :
          /\ InArena(w)
          /\ ~NotCloser(NearestSeedDist2(pre.points, w), w,
                        NearestSeedDist2(pre.points, pre.vertex), pre.vertex)
    /\ \E w \in pre.vertices :
          /\ ~InArena(w)
          /\ ~NotCloser(NearestSeedDist2(pre.points, pre.vertex), pre.vertex,
                        NearestSeedDist2(pre.points, w), w)


(* C31: spawn on a free cell. _find_agent_spawn_pos returns a cell only
   when it is the cell of the chosen vertex, lies in the arena and has
   counter 0; when the cell of the chosen vertex is occupied it returns
   None, and with None nobody is respawned. *)
C31_SpawnOnFreeCell ==
    (pc = "voronoi" /\ pre.op = "spawned") =>
        /\ pre.spawn_pos # NoPos =>
              /\ pre.vertex # NoVertex
              /\ pre.spawn_pos = spawn_cell(pre.vertex)
              /\ pre.spawn_pos \in Cells
              /\ obstacle_count[pre.spawn_pos] = 0
        /\ (pre.vertex # NoVertex /\ obstacle_count[spawn_cell(pre.vertex)] # 0) =>
              pre.spawn_pos = NoPos

(* the chosen vertex lies on the cell of a snake and no cell is returned *)
C31_Witness ==
    /\ pc = "voronoi" /\ pre.op = "spawned"
    /\ pre.vertex # NoVertex
    /\ obstacle_count[spawn_cell(pre.vertex)] # 0
    /\ pre.spawn_pos = NoPos

(* ---- the pathfinder as a function ---- *)

(* the earlier pathfinder of src/a_star.py: parents are positions, the
   heuristic is the squared Euclidian distance, no iteration cap *)
NO_PATH_FOUND == NoPos

(* for neighbor in graph.iter_neighbors(current): a position taken again
   from the frontier after it was closed relaxes nothing *)
(* the relaxation that records for a neighbour the distance of the current
   position itself *)
RECURSIVE GridGraph_relax_SameDistance(_, _, _, _)
GridGraph_relax_SameDistance(st, grid, cur, k) ==
    IF k > Len(NeighborOrder) THEN st
    ELSE IF /\ grid[get_neighbor(cur, NeighborOrder[k])] = 0
            /\ cur \notin st.closed
            /\ st.dist[cur] + 1 < st.dist[get_neighbor(cur, NeighborOrder[k])]
         THEN GridGraph_relax_SameDistance(
                  [st EXCEPT !.dist[get_neighbor(cur, NeighborOrder[k])] = st.dist[cur],
                             !.parent[get_neighbor(cur, NeighborOrder[k])] = cur,
                             !.open = @ \cup {get_neighbor(cur, NeighborOrder[k])}],
                  grid, cur, k + 1)
         ELSE GridGraph_relax_SameDistance(st, grid, cur, k + 1)

RECURSIVE GridGraph_relax(_, _, _, _)
GridGraph_relax(st, grid, cur, k) ==
    IF k > Len(NeighborOrder) THEN st
    ELSE IF /\ grid[get_neighbor(cur, NeighborOrder[k])] = 0
            /\ cur \notin st.closed
            /\ st.dist[cur] + 1 < st.dist[get_neighbor(cur, NeighborOrder[k])]
         THEN GridGraph_relax(
                  [st EXCEPT !.dist[get_neighbor(cur, NeighborOrder[k])] = st.dist[cur] + 1,
                             !.parent[get_neighbor(cur, NeighborOrder[k])] = cur,
                             !.open = @ \cup {get_neighbor(cur, NeighborOrder[k])}],
                  grid, cur, k + 1)
         ELSE GridGraph_relax(st, grid, cur, k + 1)

(* the positions of the set open in the order the loop meets them: iteration
   is a sequence that lists every cell, the order in which Python iterates
   the set not being fixed by the code *)
Iterated(iteration, open) == SelectSeq(iteration, LAMBDA c : c \in open)

(* the loop of _minimizing_cost_position from its i-th position on; best
   holds x_min, y_min as p, c_min as c and h_min as h, with Unreached for inf *)
RECURSIVE GridGraph_scan(_, _, _, _, _)
GridGraph_scan(positions, dist, dst, i, best) ==
    IF i > Len(positions) THEN best.p
    ELSE IF dist[positions[i]] + EuclidianDistanceHeuristic(dst, positions[i]) < best.c
         THEN GridGraph_scan(positions, dist, dst, i + 1,
                  [p |-> positions[i],
                   c |-> dist[positions[i]] + EuclidianDistanceHeuristic(dst, positions[i]),
                   h |-> EuclidianDistanceHeuristic(dst, positions[i])])
         ELSE IF /\ dist[positions[i]] + EuclidianDistanceHeuristic(dst, positions[i])
                    = best.c
                 /\ EuclidianDistanceHeuristic(dst, positions[i]) < best.h
              THEN GridGraph_scan(positions, dist, dst, i + 1,
                       [best EXCEPT !.p = positions[i],
                                    !.h = EuclidianDistanceHeuristic(dst, positions[i])])
              ELSE GridGraph_scan(positions, dist, dst, i + 1, best)

(* the selection that keeps the last position met among those of least cost *)
GridGraph_minimizing_cost_position_Last(positions, dist, dst) ==
    IF positions = <<>> THEN NO_PATH_FOUND
    ELSE Last(SelectSeq(positions,
                  LAMBDA p : \A i \in 1 .. Len(positions) :
                      dist[p] + EuclidianDistanceHeuristic(dst, p)
                      <= dist[positions[i]]
                         + EuclidianDistanceHeuristic(dst, positions[i])))

GridGraph_minimizing_cost_position(positions, dist, dst) ==
    GridGraph_scan(positions, dist, dst, 1,
                   [p |-> NO_PATH_FOUND, c |-> Unreached, h |-> Unreached])

RECURSIVE GridGraph_search(_, _, _, _)
(* r: the state once the neighbours of the current position are relaxed;
   next: the position selected in the frontier without the current one *)
GridGraph_select(r, grid, dst, iteration, next) ==
    IF next = NO_PATH_FOUND
    THEN r
    ELSE GridGraph_search(
             [r EXCEPT !.open = @ \ {r.cur},
                       !.closed = @ \cup {r.cur},
                       !.cur = next,
                       !.log = Append(@, [open |-> r.open \ {r.cur},
                                          dist |-> r.dist, cur |-> next])],
             grid, dst, iteration)

GridGraph_close(r, grid, dst, iteration) ==
    GridGraph_select(r, grid, dst, iteration,
        GridGraph_minimizing_cost_position(Iterated(iteration, r.open \ {r.cur}),
                                           r.dist, dst))

GridGraph_search(st, grid, dst, iteration) ==
    IF st.cur = dst THEN st
    ELSE GridGraph_close(GridGraph_relax(st, grid, st.cur, 1), grid, dst, iteration)

RECURSIVE GridGraph_get_path(_, _, _)
GridGraph_get_path(src, p, parents) ==
    IF p = src THEN <<>>
    ELSE <<p>> \o GridGraph_get_path(src, parents[p], parents)

GridGraph_path_of(src, st) == GridGraph_get_path(src, st.cur, st.parent)

(* _shortest_path up to the end of its loop; log lists the selections made:
   the frontier, the distances and the position selected *)
GridGraph_run(grid, src, dst, iteration) ==
    GridGraph_search([cur |-> src,
                      dist |-> [c \in Cells |-> IF c = src THEN 0 ELSE Unreached],
                      parent |-> [c \in Cells |-> NoPos],
                      open |-> {src}, closed |-> {}, log |-> <<>>], grid, dst, iteration)

GridGraph_shortest_path(grid, src, dst, iteration) ==
    GridGraph_path_of(src, GridGraph_run(grid, src, dst, iteration))

(* two orders of iteration of a set of cells: by cell rank, and the reverse *)
IterationOrders == {SetToSeq(Cells), Reverse(SetToSeq(Cells))}

(* the heuristics an agent can be built with *)
HeuristicTypes == {"euclidian", "manhattan", "periodic"}

(* the grids with free and obstructed cells *)
Grids == [Cells -> {0, 1}]

(* a search is asked by an agent whose head is src, on a grid where the
   head is an obstacle, towards the destination dst *)
PathInit ==
    /\ \E grid \in Grids, src \in Cells, dst \in Cells, htype \in HeuristicTypes :
          /\ grid[src] = 1
          /\ obstacle_count = grid
          /\ agents = <<[NewAgent("astar", <<src>>, DOWN, 0, 0, <<>>)
                            EXCEPT !.heuristic_type = htype]>>
          /\ food_pos = {dst}
          /\ \E iteration \in IterationOrders :
                pre = [op |-> "query", src |-> src, dst |-> dst, iteration |-> iteration,
                       path |-> <<>>, cells |-> <<>>]
    /\ alive_agents = <<1>> /\ dead_agents = <<>>
    /\ initial_n_food = 1
    /\ initial_respawn_cooldown = 0 /\ respawn_cooldown = 0
    /\ pc = "path"
    /\ directions = <<>> /\ cut_lengths = <<>> /\ growing = <<>> /\ deads = <<>>
    /\ ticks = 0 /\ tick_budget = 0 /\ resets = 0

(* shortest_path(world, src, dst, heuristic, max_iteration) and
   GridGraph.shortest_path(src, dst) on the same grid *)
PathSearch ==
    /\ pre.op = "query"
    /\ pre' = [pre EXCEPT !.op = "searched",
                          !.path = shortest_path(obstacle_count, pre.src, pre.dst,
                                                 agents[1].heuristic_type),
                          !.cells = GridGraph_shortest_path(obstacle_count, pre.src, pre.dst,
                                                            pre.iteration)]
    /\ UNCHANGED <<obstacle_count, food_pos, respawn_cooldown, alive_agents, dead_agents,
                   config, agents, pc, locals, ticks, resets>>

(* compute_shortest_path((dst,)) of the agent *)
PathInstall ==
    /\ pre.op = "searched"
    /\ agents' = <<compute_shortest_path(agents[1], obstacle_count, <<pre.dst>>,
                                         0, Unreached).agent>>
    /\ pre' = [pre EXCEPT !.op = "installed"]
    /\ UNCHANGED <<obstacle_count, food_pos, respawn_cooldown, alive_agents, dead_agents,
                   config, pc, locals, ticks, resets>>

PathNext == PathSearch \/ PathInstall

PathSpec == PathInit /\ [][PathNext]_vars

(* the free cells one step from a cell of reached *)
FreeNeighbors(grid, reached) ==
    {c \in Cells : grid[c] = 0 /\ \E d \in Directions : get_neighbor(c, d) \in reached}

(* reached: the cells at k steps or less from the source *)
RECURSIVE Within(_, _, _, _)
Within(grid, reached, dst, k) ==
    IF dst \in reached THEN k
    ELSE IF FreeNeighbors(grid, reached) \subseteq reached THEN Unreached
    ELSE Within(grid, reached \cup FreeNeighbors(grid, reached), dst, k + 1)

(* the breadth-first distance from src to dst, Unreached when there is none *)
BfsDistance(grid, src, dst) == Within(grid, {src}, dst, 0)

Searched == pc = "path" /\ pre.op # "query"

(* C24: pathfinder optimality. Whenever dst is reachable from src through
   free cells, shortest_path returns a path that ends on dst and has as many
   steps as the breadth-first distance from src to dst. *)
C24_PathfinderOptimality ==
    (Searched /\ BfsDistance(obstacle_count, pre.src, pre.dst) # Unreached) =>
        /\ Len(pre.path) = BfsDistance(obstacle_count, pre.src, pre.dst)
        /\ Len(pre.cells) = BfsDistance(obstacle_count, pre.src, pre.dst)


(* the cells listed from the last one back towards src, src excluded, each
   one free and a neighbour of the next, the last one a neighbour of src *)
ValidCells(grid, src, cells) ==
    /\ \A i \in 1 .. Len(cells) : grid[cells[i]] = 0 /\ cells[i] # src
    /\ \A i \in 1 .. Len(cells) - 1 :
          \E d \in Directions : cells[i] = get_neighbor(cells[i + 1], d)
    /\ cells # <<>> => \E d \in Directions : Last(cells) = get_neighbor(src, d)

(* the same with the directions: each step leads from the next cell listed,
   or from src, to its cell *)
ValidPath(grid, src, path) ==
    /\ ValidCells(grid, src, [i \in 1 .. Len(path) |-> path[i].p])
    /\ \A i \in 1 .. Len(path) :
          path[i].p = get_neighbor(IF i = Len(path) THEN src ELSE path[i + 1].p, path[i].d)

Reached(grid, src, dst) == src # dst /\ BfsDistance(grid, src, dst) # Unreached

(* C25: path validity. The path the pathfinder returns lists free cells
   from the last expanded one back towards the source, the source excluded,
   consecutive cells being neighbours on the torus and the last one a
   neighbour of the source; its first cell is dst exactly when dst is
   reached; compute_shortest_path caches a path only when it starts on dst. *)
C25_PathValidity ==
    Searched =>
        /\ ValidPath(obstacle_count, pre.src, pre.path)
        /\ ValidCells(obstacle_count, pre.src, pre.cells)
        /\ (pre.path # <<>> /\ pre.path[1].p = pre.dst)
              <=> Reached(obstacle_count, pre.src, pre.dst)
        /\ (pre.cells # <<>> /\ pre.cells[1] = pre.dst)
              <=> Reached(obstacle_count, pre.src, pre.dst)
        /\ (pre.op = "installed" /\ agents[1].path # <<>>) =>
              /\ agents[1].path = pre.path
              /\ pre.path[1].p = pre.dst
        /\ (pre.op = "installed" /\ ~Reached(obstacle_count, pre.src, pre.dst)) =>
              agents[1].path = <<>>

(* dst is free and out of reach, the search returned the path to another
   cell, two steps long or more, and the agent cached nothing *)
C25_Witness ==
    /\ pc = "path" /\ pre.op = "installed"
    /\ obstacle_count[pre.dst] = 0
    /\ ~Reached(obstacle_count, pre.src, pre.dst)
    /\ Len(pre.path) >= 2 /\ Len(pre.cells) >= 2
    /\ agents[1].path = <<>>


(* ---- the selection in the frontier ---- *)

(* the selections the search of the query made, in the order it made them *)
Selections == GridGraph_run(obstacle_count, pre.src, pre.dst, pre.iteration).log

SelectionCost(s, p) == s.dist[p] + EuclidianDistanceHeuristic(pre.dst, p)

(* p is as good as q for the selection s: a lower sum, or the same sum and a
   heuristic value that is not higher *)
AsGood(s, p, q) ==
    \/ SelectionCost(s, p) < SelectionCost(s, q)
    \/ /\ SelectionCost(s, p) = SelectionCost(s, q)
       /\ EuclidianDistanceHeuristic(pre.dst, p) <= EuclidianDistanceHeuristic(pre.dst, q)

(* the positions of the frontier that no position of the frontier beats *)
Candidates(s) == {p \in s.open : \A q \in s.open : AsGood(s, p, q)}

Minimizes(s) == s.cur \in Candidates(s)

(* among the candidates the selected one is the one the iteration met first *)
FirstMet(s) == s.cur = Iterated(pre.iteration, Candidates(s))[1]

EverySelection(log, P(_)) == \A k \in 1 .. Len(log) : P(log[k])

(* the path the search returns when the frontier is iterated in another order *)
OrderDependent ==
    \E iteration \in IterationOrders :
        GridGraph_shortest_path(obstacle_count, pre.src, pre.dst, iteration) # pre.cells

(* C33: frontier selection. Every position the search selects in its frontier
   minimizes dist_from_src + heuristic and, among the positions of that sum,
   has the lowest heuristic value; among the positions equal in both it is
   the first one the iteration of the frontier set meets. *)
C33_FrontierSelection ==
    Searched => EverySelection(Selections, LAMBDA s : Minimizes(s) /\ FirstMet(s))

(* C33 as stated: the selection minimizes the sum, then the heuristic, and the
   returned path is the same whatever the order in which the frontier set is
   iterated. *)
C33_FrontierSelection_Stated ==
    Searched =>
        /\ EverySelection(Selections, Minimizes)
        /\ ~OrderDependent

(* a search selected in a frontier where two positions are equal in sum and in
   heuristic, and the path it returned is not the one another order gives *)
C33_Witness ==
    /\ Searched
    /\ ~EverySelection(Selections, LAMBDA s : Cardinality(Candidates(s)) < 2)
    /\ OrderDependent


(* ---- the end of the search ---- *)

(* the parent links from p lead to src within n steps, each to a cell with a
   recorded parent (or to src) and a strictly lower recorded distance *)
RECURSIVE LinksLead(_, _, _, _)
LinksLead(st, src, p, n) ==
    \/ p = src
    \/ /\ n > 0
       /\ st.parent[p] # NoPos
       /\ st.dist[st.parent[p]] < st.dist[p]
       /\ LinksLead(st, src, st.parent[p], n - 1)

(* st is the state in which the loop of the search of the query ended *)
Terminated(st) ==
    /\ Len(st.log) <= Cardinality(Cells) * Cardinality(Cells)
    /\ LinksLead(st, pre.src, st.cur, Cardinality(Cells) - 1)
    /\ Len(pre.cells) < Cardinality(Cells)

(* the search selected a position it had selected before *)
Reselected(log) == \E j, k \in 1 .. Len(log) : j < k /\ log[j].cur = log[k].cur

(* C40: pathfinder termination. On every grid the loop of the search ends
   after a bounded number of selections and the reconstruction after fewer
   steps than there are cells: the parent links followed from the last
   expanded position strictly decrease the recorded distance, never pass
   twice through a cell and reach no cell without a recorded parent before
   the source. *)
C40_PathfinderTermination ==
    Searched =>
        Terminated(GridGraph_run(obstacle_count, pre.src, pre.dst, pre.iteration))

(* a search ended on a path of three steps or more after selecting again a
   position it had closed *)
C40_Witness ==
    /\ Searched
    /\ Len(pre.cells) >= 3
    /\ Reselected(Selections)

(* ---- food seeking ---- *)

(* the food-seeking update_path of the deciding agent runs: the agent plans
   and, when it is offensive, its attack has failed *)
SeeksFood(id) == Replans(id) /\ ~Attacks(id)

(* the free food cells a walk from the head of agent id through free cells
   can enter *)
ReachableFood(id) ==
    {f \in food_pos : /\ obstacle_count[f] = 0
                      /\ BfsDistance(obstacle_count, get_head(agents[id]), f) # Unreached}

(* C27: retry without caution. When the search behind the danger layers
   finds no valid path to a food cell, update_path searches once more on the
   grid without the layers and keeps what that search leaves; so whenever a
   free food cell can be reached from the head on the unmarked grid, the
   planning call ends with a cached path that leads from the head to a food
   cell through free cells. *)
C27_RetryWithoutCaution ==
    SeeksFood(Deciding) =>
        /\ ~FoundWithCaution(Deciding) =>
              Cached(Deciding) =
                 compute_path_to_nearest_food(agents[Deciding], obstacle_count,
                                              food_pos).agent.path
        /\ ReachableFood(Deciding) # {} =>
              /\ Len(Cached(Deciding)) > 0
              /\ Cached(Deciding)[1].p \in food_pos
              /\ ValidPath(obstacle_count, get_head(agents[Deciding]), Cached(Deciding))

(* the danger layers close every way to the food and the plain grid leaves
   one: the second search is the one that finds the path *)
C27_Witness ==
    /\ SeeksFood(Deciding)
    /\ ~FoundWithCaution(Deciding)
    /\ ReachableFood(Deciding) # {}
    /\ Len(Cached(Deciding)) > 0
    /\ Cached(Deciding)[1].p \in food_pos


(* the food plan as a function: an agent whose head is src, built with the
   heuristic of the games, a grid where the head is an obstacle, and up to
   MaxFood food cells *)
MaxFood == 2

FoodSets == {F \in SUBSET Cells : Cardinality(F) >= 1 /\ Cardinality(F) <= MaxFood}

FoodInit ==
    /\ \E grid \in Grids, src \in Cells, food \in FoodSets :
          /\ grid[src] = 1
          /\ obstacle_count = grid
          /\ agents = <<NewAgent("astar", <<src>>, DOWN, 0, 0, <<>>)>>
          /\ food_pos = food
          /\ initial_n_food = Cardinality(food)
    /\ pre = [op |-> "hungry", found |-> FALSE]
    /\ alive_agents = <<1>> /\ dead_agents = <<>>
    /\ initial_respawn_cooldown = 0 /\ respawn_cooldown = 0
    /\ pc = "food"
    /\ directions = <<>> /\ cut_lengths = <<>> /\ growing = <<>> /\ deads = <<>>
    /\ ticks = 0 /\ tick_budget = 0 /\ resets = 0

(* success = self.compute_path_to_nearest_food(); r is what it leaves *)
FoodPlanned(r) ==
    /\ agents' = <<r.agent>>
    /\ pre' = [op |-> "planned", found |-> r.idx # 0]

FoodPlan ==
    /\ pre.op = "hungry"
    /\ FoodPlanned(compute_path_to_nearest_food(agents[1], obstacle_count, food_pos))
    /\ UNCHANGED <<obstacle_count, food_pos, respawn_cooldown, alive_agents, dead_agents,
                   config, pc, locals, ticks, resets>>

FoodNext == FoodPlan

FoodSpec == FoodInit /\ [][FoodNext]_vars

(* the path the pathfinder returns from the head of the agent to f *)
FoundPath(f) ==
    shortest_path(obstacle_count, get_head(agents[1]), f, agents[1].heuristic_type)

(* the free food cells the path found to which is valid: it starts on them *)
ValidFood ==
    {f \in food_pos : /\ obstacle_count[f] = 0
                      /\ Len(FoundPath(f)) > 0
                      /\ FoundPath(f)[1].p = f}

(* C28: nearest food. When the food plan succeeds, the cached path is the
   path found to a free food cell, no valid path found to a food cell of the
   snapshot is shorter, and among the food cells with a path of that length
   it is the first iterated (a later path replaces it only when strictly
   shorter). The plan succeeds exactly when some valid path was found. *)
C28_NearestFood ==
    (pc = "food" /\ pre.op = "planned") =>
        /\ pre.found <=> ValidFood # {}
        /\ pre.found =>
              /\ agents[1].path # <<>>
              /\ agents[1].path[1].p \in ValidFood
              /\ agents[1].path = FoundPath(agents[1].path[1].p)
              /\ \A f \in ValidFood :
                    /\ Len(agents[1].path) <= Len(FoundPath(f))
                    /\ Len(agents[1].path) = Len(FoundPath(f)) =>
                          CellRank(agents[1].path[1].p) <= CellRank(f)

(* two food cells have a valid path, the first one iterated has the longer
   path, and the plan cached the path to the second *)
C28_Witness ==
    /\ pc = "food" /\ pre.op = "planned" /\ pre.found
    /\ \E f \in ValidFood :
          /\ CellRank(f) < CellRank(agents[1].path[1].p)
          /\ Len(FoundPath(f)) > Len(agents[1].path)


(* ---- targeting ---- *)

(* the world after reset(): two rivals of one cell (agents 1 and 2) heading
   anywhere and an offensive agent of two cells (agent 3) that watches both;
   the arena is a torus, so the offensive agent is put on one place *)
TargetInit ==
    /\ \E r1 \in Cells, r2 \in Cells, d1 \in Directions, d2 \in Directions :
          /\ r1 # r2
          /\ {r1, r2} \cap Range(Column(1, 1, 2)) = {}
          /\ agents = PlaceLoop(<<1, 2, 3>>, 1,
                                <<NewAgent("player", <<r1>>, d1, 0, 0, <<>>),
                                  NewAgent("player", <<r2>>, d2, 0, 0, <<>>),
                                  NewAgent("offensive", Column(1, 1, 2), DOWN, 0, 0,
                                           <<1, 2>>)>>,
                                [c \in Cells |-> 0]).agents
    /\ obstacle_count = [c \in Cells |-> BodyCount(c, <<1, 2, 3>>, agents)]
    /\ alive_agents = <<1, 2, 3>> /\ dead_agents = <<>>
    /\ food_pos = {}
    /\ initial_n_food = 0
    /\ initial_respawn_cooldown = 0 /\ respawn_cooldown = 0
    /\ pc = "target"
    /\ directions = <<>> /\ cut_lengths = <<>> /\ growing = <<>> /\ deads = <<>>
    /\ pre = [op |-> "none", success |-> FALSE, before |-> agents[3]]
    /\ ticks = 0 /\ tick_budget = 0 /\ resets = 0

(* what update_path of the offensive agent leaves: r *)
Targeted(r, success) ==
    /\ agents' = [agents EXCEPT ![3] = r.agent]
    /\ obstacle_count' = r.grid
    /\ pre' = [op |-> "plan", success |-> success, before |-> agents[3]]

(* update_path of the offensive agent *)
TargetPlan ==
    /\ Targeted(update_path(3, agents, obstacle_count, food_pos, alive_agents), Attacks(3))
    /\ UNCHANGED <<food_pos, respawn_cooldown, alive_agents, dead_agents,
                   config, pc, locals, ticks, resets>>

(* a living rival takes another direction *)
TargetTurn ==
    /\ \E r \in {1, 2}, d \in Directions :
          /\ agents[r].alive
          /\ d # agents[r].dir
          /\ agents' = [agents EXCEPT ![r].dir = d]
    /\ pre' = [op |-> "turn", success |-> FALSE, before |-> agents[3]]
    /\ UNCHANGED <<obstacle_count, food_pos, respawn_cooldown, alive_agents, dead_agents,
                   config, pc, locals, ticks, resets>>

(* the rival r has died: r is what die() leaves *)
Died(id, r) ==
    /\ agents' = [agents EXCEPT ![id] = r.agent]
    /\ obstacle_count' = r.grid
    /\ alive_agents' = SelectSeq(alive_agents, LAMBDA o : o # id)
    /\ dead_agents' = Append(dead_agents, id)

(* a living rival dies *)
TargetDie ==
    /\ \E r \in {1, 2} : agents[r].alive /\ Died(r, die(agents[r], obstacle_count))
    /\ pre' = [op |-> "die", success |-> FALSE, before |-> agents[3]]
    /\ UNCHANGED <<food_pos, respawn_cooldown, config, pc, locals, ticks, resets>>

TargetNext == TargetPlan \/ TargetTurn \/ TargetDie

TargetSpec == TargetInit /\ [][TargetNext]_vars

(* the agent a has a target and that target is alive *)
Locked(a) == a.target # NoAgent /\ agents[a.target].alive

(* the path cached by the plan ends on a projected cell of the rival o *)
Intercepts(o) ==
    /\ Len(agents[3].path) > 0
    /\ \E d \in Horizon(agents[3]) : agents[3].path[1].p = ImpactCell(o, d)

(* C29: sticky targeting. A planning call of an offensive agent whose
   target is alive considers that rival only: when the intercept on it
   succeeds the target stays and the cached path ends on a projected cell of
   it, when it fails the target is unset although the rival lives. The
   other registered opponents are considered only when the target is dead
   or unset. *)
C29_StickyTargeting ==
    (pc = "target" /\ pre.op = "plan") =>
        /\ Locked(pre.before) =>
              /\ agents[3].target = IF pre.success THEN pre.before.target ELSE NoAgent
              /\ pre.success <=> \E d \in Horizon(pre.before) :
                                    StrictlyWithin(pre.before, pre.before.target, d)
              /\ pre.success => Intercepts(pre.before.target)
        /\ ~Locked(pre.before) =>
              /\ pre.success <=> agents[3].target # NoAgent
              /\ pre.success =>
                    /\ agents[3].target \in Range(agents[3].opponents)
                    /\ agents[agents[3].target].alive
                    /\ Intercepts(agents[3].target)

(* C29 as stated: the target stays the same rival as long as the rival is
   alive *)
C29_StickyTargeting_Stated ==
    (pc = "target" /\ pre.op = "plan" /\ Locked(pre.before)) =>
        agents[3].target = pre.before.target

(* the plan keeps the second rival as target while the first one, which
   comes first among the opponents, lives and could be intercepted *)
C29_Witness ==
    /\ pc = "target" /\ pre.op = "plan" /\ pre.success
    /\ pre.before.target = 2
    /\ agents[3].target = 2
    /\ agents[1].alive
    /\ \E d \in Horizon(pre.before) : StrictlyWithin(pre.before, 1, d)


(* ---- the fallback of the offensive agent ---- *)

(* the deciding agent is offensive, plans, and compute_attack_path fails *)
AttackFails(id) ==
    /\ Replans(id)
    /\ agents[id].kind = "offensive"
    /\ ~Attacks(id)

(* the agent id as update_path leaves it *)
AfterPlan(id) == update_path(id, agents, obstacle_count, food_pos, alive_agents).agent

(* the path the food-seeking plan of agent id leaves: the one found behind
   the danger layers, else the one the retry leaves *)
FoodSeekingPath(id) ==
    IF FoundWithCaution(id)
    THEN compute_path_to_nearest_food(agents[id], DangerGrid(id), food_pos).agent.path
    ELSE compute_path_to_nearest_food(agents[id], obstacle_count, food_pos).agent.path

(* C30: offensive fallback. When compute_attack_path accepts no intercept
   over the whole horizon (every projected cell obstructed and no living
   opponent included), the target of the agent is None after the planning
   call, and the call has run the food-seeking plan: the cached path is the
   one found behind the danger layers, or else the one the retry without
   caution leaves, and the grid is as before. *)
C30_OffensiveFallback ==
    AttackFails(Deciding) =>
        /\ AfterPlan(Deciding).target = NoAgent
        /\ AfterPlan(Deciding).path = FoodSeekingPath(Deciding)
        /\ update_path(Deciding, agents, obstacle_count, food_pos, alive_agents).grid
              = obstacle_count
        /\ ReachableFood(Deciding) # {} =>
              /\ Len(AfterPlan(Deciding).path) > 0
              /\ AfterPlan(Deciding).path[1].p \in food_pos

(* the offensive agent plans when its only opponent is dead, and the
   fallback caches a path to the food *)
C30_Witness ==
    /\ AttackFails(Deciding)
    /\ PotentialTargets(agents[Deciding], agents) = <<>>
    /\ AfterPlan(Deciding).path # agents[Deciding].path
    /\ Len(AfterPlan(Deciding).path) > 0
    /\ AfterPlan(Deciding).path[1].p \in food_pos

====
